---- MODULE Spec2Model ----
(***************************************************************************)
(* Verification model of stackbt: the pushdown automaton of                *)
(* automata_impl/src/pushdown_automaton.rs and the behavior tree node      *)
(* composites of behavior_tree/src.                                        *)
(***************************************************************************)
EXTENDS Integers, Sequences, FiniteSets, TLC

VARIABLES
    pdBottom,    \* PushdownAutomaton.bottom : Option<T>
    pdStack,     \* PushdownAutomaton.stack  : Vec<N>, top is the last element
    pdResult,    \* outcome of the last transition call
    pdHist,      \* the last HistLen transition calls, oldest first
    pdRunLen,    \* number of consecutive Push transitions just performed
    pdRunBase,   \* stack depth when that run of Push transitions started
    pdNextId,    \* identity given to the next frame that is constructed
    ndKind,      \* which node composite the host drives
    ndChild,     \* the child node the composite owns (NoChild when it owns none)
    ndLive,      \* the host still holds the composite (it has not returned Terminal)
    ndResult,    \* what the composite's last step / transition returned
    ndCall,      \* the last call: input, child instance stepped, its result, decision
    ndTerminated,\* identities of the child instances that have returned Terminal
    ndLastDisc,  \* discriminant the serial node was constructed with or last switched to
    ndNextId,    \* identity given to the next child instance that is constructed
    ndTick,      \* number of calls the host has made on the composite
    ndThird,     \* so far a child step returned Terminal exactly when it was
                 \* the third step of that child instance
    parKind,     \* which parallel node the host drives
    parCfg,      \* how the child of each slot is constructed
    parColl,     \* the children the parallel node owns, by slot
    parLive,     \* the host still holds the parallel node
    parResult,   \* what the parallel node's last step returned
    parCall,     \* the last step: input, child results, call log, decision
    parTick,     \* number of steps the host has made on the parallel node
    cmKind,      \* which automaton combinator the host drives
    cmFirst,     \* the combinator's first machine (before / first / internal)
    cmSecond,    \* the combinator's second machine (after / second)
    cmRefFirst,  \* the host's own copy of the first machine
    cmRefSecond, \* the host's own copy of the second machine
    cmLive,      \* the host still holds the combinator
    cmAction,    \* what the combinator's last transition returned
    cmRefAction, \* what the copies returned for the same input
    cmCall,      \* the last call: input and what the machines were handed
    cmInputs,    \* the inputs handed to the combinator so far
    cmBuilds,    \* number of times a lazy constructor has been invoked
    bmKind,      \* which base state machine the host drives
    bmMachine,   \* the machine: Option of its step function, and its internal
    bmPanicOn,   \* the input on which the machine's step function panics, if any
    bmCopy,      \* the duplicate the host made of the machine (NoCopy before)
    bmShared,    \* the duplicate lives in the storage of the machine itself
    bmResult,    \* outcome of the last transition call on the machine
    bmStepped,   \* the last call on the machine invoked the step function
    bmPanicked,  \* the step function of the machine has panicked
    bmHist,      \* calls on the machine since it was duplicated
    bmCopyHist,  \* calls on the duplicate
    bmCalls,     \* number of transition calls the host has made
    bmInput      \* the input of the last transition call on the machine

pdVars == <<pdBottom, pdStack, pdResult, pdHist, pdRunLen, pdRunBase, pdNextId>>

ndVars == <<ndKind, ndChild, ndLive, ndResult, ndCall, ndTerminated, ndLastDisc,
            ndNextId, ndTick, ndThird>>

parVars == <<parKind, parCfg, parColl, parLive, parResult, parCall, parTick>>

cmVars == <<cmKind, cmFirst, cmSecond, cmRefFirst, cmRefSecond, cmLive, cmAction,
            cmRefAction, cmCall, cmInputs, cmBuilds>>

bmVars == <<bmKind, bmMachine, bmPanicOn, bmCopy, bmShared, bmResult, bmStepped,
            bmPanicked, bmHist, bmCopyHist, bmCalls, bmInput>>

vars == <<pdBottom, pdStack, pdResult, pdHist, pdRunLen, pdRunBase, pdNextId,
          ndKind, ndChild, ndLive, ndResult, ndCall, ndTerminated, ndLastDisc,
          ndNextId, ndTick, ndThird,
          parKind, parCfg, parColl, parLive, parResult, parCall, parTick,
          cmKind, cmFirst, cmSecond, cmRefFirst, cmRefSecond, cmLive, cmAction,
          cmRefAction, cmCall, cmInputs, cmBuilds,
          bmKind, bmMachine, bmPanicOn, bmCopy, bmShared, bmResult, bmStepped,
          bmPanicked, bmHist, bmCopyHist, bmCalls, bmInput>>

----------------------------------------------------------------------------
(* Bounds of the model. *)

\* frames constructed by Push over one run of the pushdown automaton
MaxPushes == 3
\* frames handed to from_iter at construction
MaxPrepush == 2
\* number of past transition calls remembered in pdHist
HistLen == 4
\* child node instances constructed over one run of a node composite
MaxInstances == 4
\* largest internal count a child node's machine reaches
MaxCount == 3
\* calls the host makes on one node composite
MaxTicks == 9
\* calls the host makes on one automaton combinator
MaxCalls == 4

----------------------------------------------------------------------------
(* Pushdown automaton: the frames and the bottom of the check_def test.    *)

\* inputs fed to the pushdown automaton (i64 in the test)
PdInputs == {-1, 0, 1}

\* internal states handed to prepushed frames
PrepushStates == {0, 1}

\* Option::None / Option::Some(machine with internal state s)
None == [tag |-> "None"]

Some(s) == [tag |-> "Some", st |-> s]

\* identity reported when bottom services a call / when nothing does
BottomId == 0

NoService == -1

\* From<NonterminalProxy>: InternalStateMachine::new(NonterminalFunction, 0)
NonterminalProxyInto(id) == [id |-> id, st |-> 0]

\* terminal_transition(new, internal): the step function of bottom
terminal_transition(new, internal) ==
    IF new = 0
    THEN [kind |-> "Push", act |-> internal, st |-> internal]
    ELSE [kind |-> "Stay", act |-> internal, st |-> new]

\* nonterminal_transition(new, internal): the step function of a frame
nonterminal_transition(new, internal) ==
    IF new = 0
    THEN [kind |-> "Push", act |-> internal, st |-> internal]
    ELSE IF new < 0
         THEN [kind |-> "Pop", act |-> internal, st |-> internal]
         ELSE [kind |-> "Stay", act |-> internal, st |-> new]

\* a call of a child's transition either returns or unwinds (panics)
ChildCall(t, panics) ==
    IF panics THEN [kind |-> "Panic", act |-> 0, st |-> 0] ELSE t

\* match stack.pop(): which arm is taken
StackIsEmptyOffByOne(stack) == Len(stack) <= 1

StackIsEmpty(stack) == Len(stack) = 0

\* stack.pop(): the element removed and the vector left
StackPopFront(stack) ==
    [val |-> stack[1], rest |-> SubSeq(stack, 2, Len(stack))]

StackPop(stack) ==
    [val |-> stack[Len(stack)], rest |-> SubSeq(stack, 1, Len(stack) - 1)]

\* PushdownTransition::Push arm: stack.push(val); stack.push(new.into())
FramePushArmSwapped(rest, val, newId) ==
    Append(Append(rest, NonterminalProxyInto(newId)), val)

FramePushArm(rest, val, newId) ==
    Append(Append(rest, val), NonterminalProxyInto(newId))

\* PushdownTransition::Stay arm: stack.push(val)
FrameStayArmBelow(rest, val) ==
    IF Len(rest) > 0
    THEN Append(Append(SubSeq(rest, 1, Len(rest) - 1), val), rest[Len(rest)])
    ELSE Append(rest, val)

FrameStayArm(rest, val) == Append(rest, val)

\* PushdownTransition::Pop arm: val is dropped
FramePopArmCascade(rest, val) ==
    IF Len(rest) > 0 THEN SubSeq(rest, 1, Len(rest) - 1) ELSE rest

FramePopArm(rest, val) == rest

\* TerminalTransition::Push arm: stack.push(new.into())
BottomPushArm(stack, newId) == Append(stack, NonterminalProxyInto(newId))

\* stack_elm_transition(stack, bottom, input); panics says whether the
\* serviced automaton's transition unwinds, newId names a pushed frame
stack_elm_transition(stack, bottom, input, panics, newId) ==
    IF ~StackIsEmpty(stack)
    THEN LET p == StackPop(stack)
             t == ChildCall(nonterminal_transition(input, p.val.st), panics)
             val == [p.val EXCEPT !.st = t.st]
             out == [bottom |-> bottom, kind |-> t.kind, act |-> t.act,
                     serviced |-> p.val.id, pushed |-> 0]
         IN  CASE t.kind = "Push" ->
                    [out EXCEPT !.pushed = newId] @@
                    [stack |-> FramePushArm(p.rest, val, newId)]
               [] t.kind = "Stay" ->
                    out @@ [stack |-> FrameStayArm(p.rest, val)]
               [] t.kind = "Pop" ->
                    out @@ [stack |-> FramePopArm(p.rest, val)]
               [] t.kind = "Panic" ->
                    \* val was moved out of the vector and is dropped by the unwind
                    out @@ [stack |-> p.rest]
    ELSE IF bottom = None
         THEN \* tmp_bottom.unwrap() on None
              [stack |-> stack, bottom |-> None, kind |-> "Poisoned", act |-> 0,
               serviced |-> NoService, pushed |-> 0]
         ELSE LET t == ChildCall(terminal_transition(input, bottom.st), panics)
                  out == [stack |-> stack, kind |-> t.kind, act |-> t.act,
                          serviced |-> BottomId, pushed |-> 0]
              IN  CASE t.kind = "Push" ->
                         [out EXCEPT !.pushed = newId,
                                     !.stack = BottomPushArm(stack, newId)] @@
                         [bottom |-> Some(t.st)]
                    [] t.kind = "Stay" ->
                         out @@ [bottom |-> Some(t.st)]
                    [] t.kind = "Panic" ->
                         \* bottom was swapped out for None and is never written back
                         out @@ [bottom |-> None]

\* the record kept of one call in pdHist
HistEntry(r) ==
    [serviced |-> r.serviced, kind |-> r.kind, pushed |-> r.pushed]

PushHist(h, e) ==
    IF Len(h) < HistLen THEN Append(h, e) ELSE Append(Tail(h), e)

\* PushdownAutomaton::new / from_iter: Some(bottom) and the prepushed frames
PrepushIds(states) == [i \in 1..Len(states) |-> [id |-> i, st |-> states[i]]]

\* prepush.collect(): the Vec holds the frames in the order they are yielded
CollectReversed(prepush) ==
    [i \in 1..Len(prepush) |-> prepush[Len(prepush) - i + 1]]

Collect(prepush) == [i \in 1..Len(prepush) |-> prepush[i]]

PdInit ==
    /\ pdBottom = Some(0)
    /\ \E n \in 0..MaxPrepush :
         \E states \in [1..n -> PrepushStates] :
            /\ pdStack = Collect(PrepushIds(states))
            /\ pdNextId = n + 1
            /\ pdRunBase = n
    /\ pdResult = [kind |-> "None", act |-> 0]
    /\ pdHist = <<>>
    /\ pdRunLen = 0

\* Automaton::transition of PushdownAutomaton
PdTransition ==
    \E input \in PdInputs, panics \in BOOLEAN :
        LET r == stack_elm_transition(pdStack, pdBottom, input, panics, pdNextId)
        IN  /\ r.pushed # 0 => pdNextId <= MaxPrepush + MaxPushes
            /\ pdStack' = r.stack
            /\ pdBottom' = r.bottom
            /\ pdResult' = [kind |-> r.kind, act |-> r.act]
            /\ pdHist' = PushHist(pdHist, HistEntry(r))
            /\ pdNextId' = IF r.pushed # 0 THEN pdNextId + 1 ELSE pdNextId
            /\ pdRunLen' = IF r.kind = "Push" THEN pdRunLen + 1 ELSE 0
            /\ pdRunBase' = IF r.kind = "Push" THEN pdRunBase ELSE Len(r.stack)
            /\ UNCHANGED <<ndVars, parVars, cmVars, bmVars>>

\* the pushdown automaton is not part of the run
PdIdle ==
    /\ pdBottom = None
    /\ pdStack = <<>>
    /\ pdResult = [kind |-> "None", act |-> 0]
    /\ pdHist = <<>>
    /\ pdRunLen = 0
    /\ pdRunBase = 0
    /\ pdNextId = 1

----------------------------------------------------------------------------
(* Behavior tree nodes: the leaf and the enumerable node of the tests of   *)
(* node_compositions.rs, and the composites that own one child node.       *)

\* inputs fed to the nodes (i64 in the tests)
NdInputs == {-1, 0, 1}

\* enum IndexEnum { First, Second }, by ordinal
NumVariants == 2

Discriminants == 0..(NumVariants - 1)

\* values a decider may exit with
ExitValues == {8, 9}

NoChild == [tag |-> "NoChild"]

\* NodeResult::Nonterminal(v, n) and NodeResult::Terminal(t)
Nonterminal(v, n) == [tag |-> "Nonterminal", val |-> v, node |-> n]

Terminal(t) == [tag |-> "Terminal", val |-> t]

\* IndefiniteIncrement::step(input, state) -> (statepoint, state)
IndefiniteIncrement_step(input, state) ==
    IF input >= 0
    THEN [tag |-> "Nonterminal", val |-> state + 1, st |-> state + 1]
    ELSE [tag |-> "Terminal", val |-> state, st |-> state]

\* MachineWrapper::step, arm Statepoint::Nonterminal(thing): self is the
\* wrapper as it was handed in, mach the wrapper after the transition
MachineWrapperNontermArmStale(self, thing, mach) == Nonterminal(thing, self)

MachineWrapperNontermArm(self, thing, mach) == Nonterminal(thing, mach)

\* MachineWrapper::step over InternalStateMachine<IndefiniteIncrement>
MachineWrapper_step(node, input) ==
    LET a == IndefiniteIncrement_step(input, node.st)
    IN  IF a.tag = "Nonterminal"
        THEN MachineWrapperNontermArm(node, a.val, [node EXCEPT !.st = a.st])
        ELSE Terminal(a.val)

\* N::default() of the leaf: InternalStateMachine::default(), internal = 0
Leaf_default(id) == [id |-> id, st |-> 0]

\* MultiMachine::step: the variant steps and stays the same variant
MultiMachine_step(node, input) == MachineWrapper_step(node, input)

\* EnumNode::new(discriminant) of MultiMachine
EnumNode_newUsed(e, id) == [id |-> id, disc |-> e, st |-> 1]

EnumNode_new(e, id) == [id |-> id, disc |-> e, st |-> 0]

\* EnumNode::discriminant_of of MultiMachine
discriminant_of(node) == node.disc

\* what a step of a composite hands back: its result, the child it now owns,
\* the child instance it stepped (0: none), the tag of that child's result
\* and whether a fresh child instance was constructed
Out(res, child, stepped, ctag, used) ==
    [res |-> res, child |-> child, stepped |-> stepped, ctag |-> ctag,
     used |-> used]

\* NodeResult::Nonterminal(v, composite owning child)
NontermOut(v, child, stepped, ctag, used) ==
    Out([tag |-> "Nonterminal", val |-> v], child, stepped, ctag, used)

\* NodeResult::Terminal(t): the composite and its child are gone
TermOut(t, stepped, ctag, used) ==
    Out(Terminal(t), NoChild, stepped, ctag, used)

NoDecision == [kind |-> "None", e |-> 0, x |-> 0]

\* the decisions a SerialDecider can take, as NontermDecision / TermDecision
NontermChoices ==
    {[kind |-> "Step", e |-> 0, x |-> 0]}
    \cup {[kind |-> "Trans", e |-> e, x |-> 0] : e \in Discriminants}
    \cup {[kind |-> "Exit", e |-> 0, x |-> x] : x \in ExitValues}

TermChoices == {c \in NontermChoices : c.kind # "Step"}

\* NontermReturn::Nonterminal(E, N) and NontermReturn::Terminal(E, T)
NontermReturn(tag, e, v) == [tag |-> tag, disc |-> e, val |-> v]

\* SerialBranchNode::step, arm NontermDecision::Step(j)
SerialStepArmFresh(discriminant, j, n, newId) ==
    NontermOut(NontermReturn("Nonterminal", discriminant, j),
        EnumNode_new(discriminant, newId), 0, "Nonterminal", TRUE)

SerialStepArm(discriminant, j, n, newId) ==
    NontermOut(NontermReturn("Nonterminal", discriminant, j),
        n, 0, "Nonterminal", FALSE)

\* SerialBranchNode::step, arm NontermDecision::Trans(e, j)
SerialNontermTransArmOldDisc(discriminant, e, j, newId) ==
    NontermOut(NontermReturn("Nonterminal", discriminant, j),
        EnumNode_new(discriminant, newId), 0, "Nonterminal", TRUE)

SerialNontermTransArm(discriminant, e, j, newId) ==
    NontermOut(NontermReturn("Nonterminal", discriminant, j),
        EnumNode_new(e, newId), 0, "Nonterminal", TRUE)

\* SerialBranchNode::step, arm TermDecision::Trans(e, j)
SerialTermTransArmNewDisc(discriminant, e, j, newId) ==
    NontermOut(NontermReturn("Terminal", e, j),
        EnumNode_new(e, newId), 0, "Terminal", TRUE)

SerialTermTransArmSameVariant(discriminant, e, j, newId) ==
    NontermOut(NontermReturn("Terminal", discriminant, j),
        EnumNode_new(discriminant, newId), 0, "Terminal", TRUE)

SerialTermTransArm(discriminant, e, j, newId) ==
    NontermOut(NontermReturn("Terminal", discriminant, j),
        EnumNode_new(e, newId), 0, "Terminal", TRUE)

\* SerialBranchNode::step, arms NontermDecision::Exit(x) / TermDecision::Exit(x)
SerialExitArm(x, ctag) == TermOut(x, 0, ctag, FALSE)

\* SerialBranchNode::step after self.node.step(input) returned r; cn and ct
\* are what the decider's on_nonterminal and on_terminal decide in this call
SerialBranchNode_match(node, r, cn, ct, newId) ==
    LET discriminant == discriminant_of(node)
        o == IF r.tag = "Nonterminal"
             THEN CASE cn.kind = "Step" ->
                         SerialStepArm(discriminant, r.val, r.node, newId)
                    [] cn.kind = "Trans" ->
                         SerialNontermTransArm(discriminant, cn.e, r.val, newId)
                    [] cn.kind = "Exit" ->
                         SerialExitArm(cn.x, "Nonterminal")
             ELSE CASE ct.kind = "Trans" ->
                         SerialTermTransArm(discriminant, ct.e, r.val, newId)
                    [] ct.kind = "Exit" ->
                         SerialExitArm(ct.x, "Terminal")
    IN  [o EXCEPT !.stepped = node.id]

\* SerialBranchNode::step(self, input) over MultiMachine
SerialBranchNode_step(node, input, cn, ct, newId) ==
    SerialBranchNode_match(node, MultiMachine_step(node, input), cn, ct, newId)

\* the unit value ()
Unit == [tag |-> "Unit"]

\* <IndexEnum as FromPrimitive>::from_u64
from_u64(n) == IF n \in Discriminants THEN Some(n) ELSE None

\* NontermDecision::Step(j), TermDecision::Trans(e, j), TermDecision::Exit(x)
StepDecision == [kind |-> "Step", e |-> 0, x |-> 0]

TransDecision(e) == [kind |-> "Trans", e |-> e, x |-> 0]

ExitDecision(x) == [kind |-> "Exit", e |-> 0, x |-> x]

\* SerialRunner::on_nonterminal, SerialSelector::on_nonterminal and
\* SerialRepeater::on_nonterminal
on_nonterminal(ordinal, statept) == StepDecision

\* SerialRunner::on_terminal(&self, _i, ordinal, statept)
SerialRunner_on_terminalWrapping(ordinal, statept) ==
    IF from_u64(ordinal + 1) # None
    THEN TransDecision(from_u64(ordinal + 1).st)
    ELSE TransDecision(from_u64(0).st)

SerialRunner_on_terminal(ordinal, statept) ==
    IF from_u64(ordinal + 1) # None
    THEN TransDecision(from_u64(ordinal + 1).st)
    ELSE ExitDecision(Unit)

\* SerialSelector::on_terminal(&self, _i, ord, statept)
SerialSelector_on_terminalAll(ord, statept) ==
    IF from_u64(ord + 1) # None
    THEN TransDecision(from_u64(ord + 1).st)
    ELSE ExitDecision(None)

SerialSelector_on_terminal(ord, statept) ==
    IF statept # None
    THEN ExitDecision(Some(<<ord, statept.st>>))
    ELSE IF from_u64(ord + 1) # None
         THEN TransDecision(from_u64(ord + 1).st)
         ELSE ExitDecision(None)

\* SerialRepeater::on_terminal(&self, _i, ordinal, statept)
SerialRepeater_on_terminalOnce(ordinal, statept) ==
    IF from_u64(ordinal + 1) # None
    THEN TransDecision(from_u64(ordinal + 1).st)
    ELSE ExitDecision(Unit)

SerialRepeater_on_terminal(ordinal, statept) ==
    IF from_u64(ordinal + 1) # None
    THEN TransDecision(from_u64(ordinal + 1).st)
    ELSE TransDecision(from_u64(0).st)

\* ValSep::terminal_transform
ValSep_terminal_transform(inval) == IF inval >= 2 THEN Some(inval) ELSE None

\* WrappedMachine::step: OutputMappedNode over ValSep around the leaf, the
\* variant stays the same
WrappedMachine_step(node, input) ==
    LET r == MachineWrapper_step(node, input)
    IN  IF r.tag = "Nonterminal"
        THEN Nonterminal(r.val, r.node)
        ELSE Terminal(ValSep_terminal_transform(r.val))

\* what the standard decider of the composite decides on the child's result
StandardDecision(kind, ordinal, r) ==
    IF r.tag = "Nonterminal"
    THEN on_nonterminal(ordinal, r.val)
    ELSE CASE kind = "SerialRunner" -> SerialRunner_on_terminal(ordinal, r.val)
           [] kind = "SerialSelector" ->
                SerialSelector_on_terminal(ordinal, r.val)
           [] kind = "SerialRepeater" ->
                SerialRepeater_on_terminal(ordinal, r.val)

\* the child's step under the composite: WrappedMachine under the selector,
\* MultiMachine under the runner and the repeater
StandardChild_step(kind, node, input) ==
    IF kind = "SerialSelector"
    THEN WrappedMachine_step(node, input)
    ELSE MultiMachine_step(node, input)

\* SerialBranchNode::step(self, input) with SerialRunner, SerialSelector or
\* SerialRepeater as its decider
StandardSerial_step(kind, node, input, newId) ==
    LET r == StandardChild_step(kind, node, input)
        d == StandardDecision(kind, discriminant_of(node), r)
    IN  SerialBranchNode_match(node, r, d, d, newId)

\* node_runner_transition(node, input): the node is taken out of the Option,
\* stepped, and its continuation or N::default() is written back
RunnerTermArmKeep(n, t, newId) ==
    Out([tag |-> "Terminal", val |-> t], n, n.id, "Terminal", FALSE)

RunnerTermArm(n, t, newId) ==
    Out([tag |-> "Terminal", val |-> t], Leaf_default(newId), n.id, "Terminal",
        TRUE)

\* node_runner_transition, arm NodeResult::Nonterminal(s, a)
RunnerNontermArmStale(n, s, a) ==
    NontermOut(s, n, n.id, "Nonterminal", FALSE)

RunnerNontermArm(n, s, a) ==
    NontermOut(s, a, n.id, "Nonterminal", FALSE)

node_runner_transition(node, input, newId) ==
    IF node = NoChild
    THEN \* panic!("Node runner was poisoned!")
         Out([tag |-> "Poisoned", val |-> 0], NoChild, 0, "None", FALSE)
    ELSE LET r == MachineWrapper_step(node, input)
         IN  IF r.tag = "Nonterminal"
             THEN RunnerNontermArm(node, r.val, r.node)
             ELSE RunnerTermArm(node, r.val, newId)

\* Result::Ok(t) / Result::Err(GuardFailure(n))
Ok(t) == [ok |-> TRUE, val |-> t]

Err(n) == [ok |-> FALSE, val |-> n]

\* GuardedNode::step, arm NodeResult::Nonterminal(n, m) when the guard fails
GuardFailArmStale(node, n) ==
    TermOut(Err(node.st), node.id, "Nonterminal", FALSE)

GuardFailArm(node, n) == TermOut(Err(n), node.id, "Nonterminal", FALSE)

\* GuardedNode::step(self, input); test is what guard.test(input, &n) returns
GuardedNode_step(node, input, test) ==
    LET r == MachineWrapper_step(node, input)
    IN  IF r.tag = "Nonterminal"
        THEN IF test
             THEN NontermOut(r.val, r.node, node.id, "Nonterminal", FALSE)
             ELSE GuardFailArm(node, r.val)
        ELSE TermOut(Ok(r.val), node.id, "Terminal", FALSE)

\* enum StepDecision
StepDecisions == {"Pause", "Play", "Reset", "ResetPlay"}

\* StepCtrlNonterm::Stepped(n) / StepCtrlNonterm::Paused
Stepped(n) == [tag |-> "Stepped", val |-> n]

Paused == [tag |-> "Paused", val |-> 0]

\* StepControlledNode::step, arm StepDecision::Reset
StepCtrlResetArmKeep(node, newId) ==
    NontermOut(Paused, node, 0, "None", FALSE)

StepCtrlResetArm(node, newId) ==
    NontermOut(Paused, Leaf_default(newId), 0, "None", TRUE)

\* StepControlledNode::step, arm StepDecision::ResetPlay
StepCtrlResetPlayArmOld(node, input, newId) ==
    LET r == MachineWrapper_step(node, input)
    IN  IF r.tag = "Nonterminal"
        THEN NontermOut(Stepped(r.val), r.node, newId, "Nonterminal", TRUE)
        ELSE TermOut(r.val, newId, "Terminal", TRUE)

StepCtrlResetPlayArm(node, input, newId) ==
    LET new_machine == Leaf_default(newId)
        r == MachineWrapper_step(new_machine, input)
    IN  IF r.tag = "Nonterminal"
        THEN NontermOut(Stepped(r.val), r.node, newId, "Nonterminal", TRUE)
        ELSE TermOut(r.val, newId, "Terminal", TRUE)

\* StepControlledNode::step(self, input); decision is what
\* stepper.controlled_step(input) returns
StepControlledNode_step(node, input, decision, newId) ==
    CASE decision = "Pause" ->
           NontermOut(Paused, node, 0, "None", FALSE)
      [] decision = "Play" ->
           LET r == MachineWrapper_step(node, input)
           IN  IF r.tag = "Nonterminal"
               THEN NontermOut(Stepped(r.val), r.node, node.id, "Nonterminal",
                               FALSE)
               ELSE TermOut(r.val, node.id, "Terminal", FALSE)
      [] decision = "Reset" -> StepCtrlResetArm(node, newId)
      [] decision = "ResetPlay" -> StepCtrlResetPlayArm(node, input, newId)

\* PostResetNonterm::{NoReset(n), ManualReset(n), EndReset(t)}
PostResetNonterm(tag, v) == [tag |-> tag, val |-> v]

\* PostResetNode::step, arm NodeResult::Terminal(t) when do_reset is true
PostResetEndArmExit(node, t, newId) == TermOut(t, node.id, "Terminal", FALSE)

PostResetEndArm(node, t, newId) ==
    NontermOut(PostResetNonterm("EndReset", t), Leaf_default(newId), node.id,
               "Terminal", TRUE)

\* PostResetNode::step(self, input); reset is what resetter.do_reset returns
\* for the statepoint of the child
PostResetNode_step(node, input, reset, newId) ==
    LET r == MachineWrapper_step(node, input)
    IN  IF r.tag = "Nonterminal"
        THEN IF reset
             THEN NontermOut(PostResetNonterm("ManualReset", r.val),
                             Leaf_default(newId), node.id, "Nonterminal", TRUE)
             ELSE NontermOut(PostResetNonterm("NoReset", r.val), r.node,
                             node.id, "Nonterminal", FALSE)
        ELSE IF reset
             THEN PostResetEndArm(node, r.val, newId)
             ELSE TermOut(r.val, node.id, "Terminal", FALSE)

\* InMap::input_transform
input_transform(input) == -input

\* OutMap::nonterminal_transform / OutMap::terminal_transform
nonterminal_transform(val) == val + 1

terminal_transform(val) == val - 1

\* InputMappedNode::step(self, input)
InputMappedNode_step(node, input) ==
    LET r == MachineWrapper_step(node, input_transform(input))
    IN  IF r.tag = "Nonterminal"
        THEN NontermOut(r.val, r.node, node.id, "Nonterminal", FALSE)
        ELSE TermOut(r.val, node.id, "Terminal", FALSE)

\* OutputMappedNode::step(self, input)
OutputMappedNode_step(node, input) ==
    LET r == MachineWrapper_step(node, input)
    IN  IF r.tag = "Nonterminal"
        THEN NontermOut(nonterminal_transform(r.val), r.node, node.id,
                        "Nonterminal", FALSE)
        ELSE TermOut(terminal_transform(r.val), node.id, "Terminal", FALSE)

\* the composites under the standard serial deciders
StandardSerialKinds == {"SerialRunner", "SerialSelector", "SerialRepeater"}

\* the composites that own one child node
WrapperKinds ==
    {"Runner", "Guarded", "StepControlled", "PostReset", "InputMapped",
     "OutputMapped"}

Decision(kind) == [kind |-> kind, e |-> 0, x |-> 0]

\* the host is handed a composite built over a child: SerialBranchNode::new
\* and from_existing, NodeRunner::new, GuardedNode::new, ...
NdInit ==
    /\ ndKind \in {"Serial", "Leaf"} \cup WrapperKinds
                  \cup StandardSerialKinds
    /\ \E st \in 0..1 :
         IF ndKind \in {"Serial"} \cup StandardSerialKinds
         THEN \E e \in Discriminants :
                /\ ndChild = [EnumNode_new(e, 1) EXCEPT !.st = st]
                /\ ndLastDisc = e
         ELSE /\ ndChild = [Leaf_default(1) EXCEPT !.st = st]
              /\ ndLastDisc = 0
    /\ ndLive = TRUE
    /\ ndResult = [tag |-> "None", val |-> 0]
    /\ ndCall = [input |-> 0, stepped |-> 0, ctag |-> "None", dec |-> NoDecision]
    /\ ndTerminated = {}
    /\ ndNextId = 2
    /\ ndTick = 0
    /\ ndThird = (ndChild.st = 0)

\* no node composite is part of the run
NdIdle ==
    /\ ndKind = "Idle"
    /\ ndChild = NoChild
    /\ ndLive = FALSE
    /\ ndResult = [tag |-> "None", val |-> 0]
    /\ ndCall = [input |-> 0, stepped |-> 0, ctag |-> "None", dec |-> NoDecision]
    /\ ndTerminated = {}
    /\ ndLastDisc = 0
    /\ ndNextId = 1
    /\ ndTick = 0
    /\ ndThird = TRUE

\* steps the child instance id has taken before this call: the leaf's
\* machine counts them, a child constructed within the call has taken none
StepsOf(id) == IF ndChild # NoChild /\ ndChild.id = id THEN ndChild.st ELSE 0

\* the state after a call that handed back o; live says whether the host
\* still holds the composite
NdApply(o, input, dec, live) ==
    /\ ndTick < MaxTicks
    /\ o.used => ndNextId <= MaxInstances
    /\ o.child # NoChild => o.child.st <= MaxCount
    /\ ndChild' = o.child
    /\ ndLive' = live
    /\ ndResult' = o.res
    /\ ndCall' = [input |-> input, stepped |-> o.stepped, ctag |-> o.ctag,
                  dec |-> dec]
    /\ ndTerminated' = IF o.ctag = "Terminal"
                       THEN ndTerminated \cup {o.stepped}
                       ELSE ndTerminated
    /\ ndLastDisc' = IF dec.kind = "Trans" THEN dec.e ELSE ndLastDisc
    /\ ndNextId' = IF o.used THEN ndNextId + 1 ELSE ndNextId
    /\ ndTick' = ndTick + 1
    /\ ndThird' = (ndThird /\ (o.stepped # 0 =>
                       ((o.ctag = "Terminal") <=> (StepsOf(o.stepped) = 2))))
    /\ UNCHANGED ndKind
    /\ UNCHANGED <<pdVars, parVars, cmVars, bmVars>>

\* the host steps the SerialBranchNode it holds
NdSerialStep ==
    /\ ndKind = "Serial" /\ ndLive
    /\ \E input \in NdInputs, cn \in NontermChoices, ct \in TermChoices :
         LET o == SerialBranchNode_step(ndChild, input, cn, ct, ndNextId)
             dec == IF o.ctag = "Nonterminal" THEN cn ELSE ct
         IN  NdApply(o, input, dec, o.res.tag = "Nonterminal")

\* the host calls NodeRunner::transition
NdRunnerTransition ==
    /\ ndKind = "Runner" /\ ndLive
    /\ \E input \in NdInputs :
         LET o == node_runner_transition(ndChild, input, ndNextId)
         IN  NdApply(o, input, NoDecision, TRUE)

\* the host steps the SerialBranchNode it holds, whose decider is the
\* SerialRunner
NdSerialRunnerStep ==
    /\ ndKind = "SerialRunner" /\ ndLive
    /\ \E input \in NdInputs :
         LET o == StandardSerial_step(ndKind, ndChild, input, ndNextId)
             r == StandardChild_step(ndKind, ndChild, input)
         IN  NdApply(o, input,
                     StandardDecision(ndKind, discriminant_of(ndChild), r),
                     o.res.tag = "Nonterminal")

\* the same with the SerialSelector
NdSerialSelectorStep ==
    /\ ndKind = "SerialSelector" /\ ndLive
    /\ \E input \in NdInputs :
         LET o == StandardSerial_step(ndKind, ndChild, input, ndNextId)
             r == StandardChild_step(ndKind, ndChild, input)
         IN  NdApply(o, input,
                     StandardDecision(ndKind, discriminant_of(ndChild), r),
                     o.res.tag = "Nonterminal")

\* the same with the SerialRepeater
NdSerialRepeaterStep ==
    /\ ndKind = "SerialRepeater" /\ ndLive
    /\ \E input \in NdInputs :
         LET o == StandardSerial_step(ndKind, ndChild, input, ndNextId)
             r == StandardChild_step(ndKind, ndChild, input)
         IN  NdApply(o, input,
                     StandardDecision(ndKind, discriminant_of(ndChild), r),
                     o.res.tag = "Nonterminal")

\* MachineWrapper::step as the host of a bare leaf sees it
Leaf_step(node, input) ==
    LET r == MachineWrapper_step(node, input)
    IN  IF r.tag = "Nonterminal"
        THEN NontermOut(r.val, r.node, node.id, "Nonterminal", FALSE)
        ELSE TermOut(r.val, node.id, "Terminal", FALSE)

\* the host steps the MachineWrapper it holds
NdLeafStep ==
    /\ ndKind = "Leaf" /\ ndLive
    /\ \E input \in NdInputs :
         LET o == Leaf_step(ndChild, input)
         IN  NdApply(o, input, NoDecision, o.res.tag = "Nonterminal")

\* the host steps the GuardedNode it holds
NdGuardedStep ==
    /\ ndKind = "Guarded" /\ ndLive
    /\ \E input \in NdInputs, test \in BOOLEAN :
         LET o == GuardedNode_step(ndChild, input, test)
         IN  NdApply(o, input, Decision(IF test THEN "Pass" ELSE "Fail"),
                     o.res.tag = "Nonterminal")

\* the host steps the StepControlledNode it holds
NdStepControlledStep ==
    /\ ndKind = "StepControlled" /\ ndLive
    /\ \E input \in NdInputs, decision \in StepDecisions :
         LET o == StepControlledNode_step(ndChild, input, decision, ndNextId)
         IN  NdApply(o, input, Decision(decision), o.res.tag = "Nonterminal")

\* the host steps the PostResetNode it holds
NdPostResetStep ==
    /\ ndKind = "PostReset" /\ ndLive
    /\ \E input \in NdInputs, reset \in BOOLEAN :
         LET o == PostResetNode_step(ndChild, input, reset, ndNextId)
         IN  NdApply(o, input, Decision(IF reset THEN "Reset" ELSE "NoReset"),
                     o.res.tag = "Nonterminal")

\* the host steps the InputMappedNode it holds
NdInputMappedStep ==
    /\ ndKind = "InputMapped" /\ ndLive
    /\ \E input \in NdInputs :
         LET o == InputMappedNode_step(ndChild, input)
         IN  NdApply(o, input, NoDecision, o.res.tag = "Nonterminal")

\* the host steps the OutputMappedNode it holds
NdOutputMappedStep ==
    /\ ndKind = "OutputMapped" /\ ndLive
    /\ \E input \in NdInputs :
         LET o == OutputMappedNode_step(ndChild, input)
         IN  NdApply(o, input, NoDecision, o.res.tag = "Nonterminal")

----------------------------------------------------------------------------
(* Parallel nodes: ParallelBranchNode over a slice of node runners with    *)
(* the ParallelRacer and ParallelRunner deciders, and                      *)
(* HomogeneousParallelNode over a NodeCollection; the children are the     *)
(* cyclers of the tests of node_compositions.rs.                           *)

\* inputs fed to the parallel nodes
ParInputs == {0, 1}

\* steps a cycler takes to come round: 2 for TwoCycler, 3 for ThreeCycler
Periods == {1, 2, 3, 5}

\* struct ParMachine { first, second }: the children of a collection
NumSlots == 2

\* Statepoint::Nonterminal(v) and Statepoint::Terminal(t)
StNonterminal(v) == [tag |-> "Nonterminal", val |-> v]

StTerminal(t) == [tag |-> "Terminal", val |-> t]

\* how the child of a slot is constructed: the cycler type, and whether the
\* controller wraps its action in Statepoint::Nonterminal (ParMachineController)
\* or hands it on as it is (WrapParMachineController)
SlotCfg(period, wrap) == [period |-> period, wrap |-> wrap]

\* Default::default() of the child of a slot: the cycler is at First; fresh
\* marks an instance that has not been stepped since it was constructed
Cycler_default(cfg) ==
    [period |-> cfg.period, wrap |-> cfg.wrap, pos |-> 0, fresh |-> TRUE]

\* RefStateMachine over a cycler, stepped through its controller: the action
\* carries the number of steps taken, the last step of a round returns to First
Cycler_transition(m, input) ==
    IF m.pos + 1 < m.period
    THEN [act |-> StNonterminal(StNonterminal(m.pos + 1)),
          next |-> [m EXCEPT !.pos = m.pos + 1, !.fresh = FALSE]]
    ELSE [act |-> IF m.wrap
                  THEN StNonterminal(StTerminal(m.pos + 1))
                  ELSE StTerminal(m.pos + 1),
          next |-> [m EXCEPT !.pos = 0, !.fresh = FALSE]]

\* MachineWrapper::step over a cycler: NodeResult with the continuation
CyclerNode_step(node, input) ==
    LET a == Cycler_transition(node, input)
    IN  IF a.act.tag = "Nonterminal"
        THEN Nonterminal(a.act.val, a.next)
        ELSE Terminal(a.act.val)

\* NodeRunner::transition of one child of the slice: the statepoint and the
\* node the runner holds afterwards
ChildRunner_transition(node, input) ==
    LET r == CyclerNode_step(node, input)
    IN  IF r.tag = "Nonterminal"
        THEN [act |-> StNonterminal(r.val), next |-> r.node]
        ELSE [act |-> StTerminal(r.val),
              next |-> Cycler_default(SlotCfg(node.period, node.wrap))]

\* one entry of the call log: the child of slot k was handed input
StepEvent(k, input) == [ev |-> "step", slot |-> k, input |-> input]

\* the decider was handed the child results
DecideEvent(states) == [ev |-> "decide", slot |-> 0, input |-> states]

\* self.iter_mut() / C::into_iter(): the order in which the children are visited
IterOrderReversed(n) == [i \in 1..n |-> n + 1 - i]

IterOrder(n) == [i \in 1..n |-> i]

\* what a pass over the children has gathered so far
Gathered(items, coll, log) == [items |-> items, coll |-> coll, log |-> log]

\* <[M] as Automaton>::transition: iter_mut().map(|mach| mach.transition(input))
\* .collect(), from position i of the iteration on
RECURSIVE SliceMap(_, _, _, _)
SliceMap(order, i, input, acc) ==
    IF i > Len(order)
    THEN acc
    ELSE LET k == order[i]
             r == ChildRunner_transition(acc.coll[k], input)
         IN  SliceMap(order, i + 1, input,
                 Gathered(Append(acc.items, r.act),
                          [acc.coll EXCEPT ![k] = r.next],
                          Append(acc.log, StepEvent(k, input))))

Slice_transition(coll, input) ==
    SliceMap(IterOrder(Len(coll)), 1, input, Gathered(<<>>, coll, <<>>))

\* Vec::swap_remove(index): the element at index is taken out and returned
SwapRemove(states, index) == states[index + 1]

\* ParallelRacer::each_step, the search loop: position of the first Terminal
\* (usize, counted from 0), or None
RacerTakeIndexLast(states) ==
    IF \E k \in 1..Len(states) : states[k].tag = "Terminal"
    THEN [tag |-> "Some",
          st |-> (CHOOSE k \in 1..Len(states) :
                    /\ states[k].tag = "Terminal"
                    /\ \A j \in (k + 1)..Len(states) :
                          states[j].tag # "Terminal") - 1]
    ELSE None

RacerTakeIndex(states) ==
    IF \E k \in 1..Len(states) : states[k].tag = "Terminal"
    THEN [tag |-> "Some",
          st |-> (CHOOSE k \in 1..Len(states) :
                    /\ states[k].tag = "Terminal"
                    /\ \A j \in 1..(k - 1) : states[j].tag # "Terminal") - 1]
    ELSE None

\* ParallelRacer::each_step, arm Option::Some(index) with val = Terminal(k)
RacerExitArmOneBased(index, k) == StTerminal(<<index + 1, k>>)

RacerExitArm(index, k) == StTerminal(<<index, k>>)

\* ParallelRacer::each_step(&self, _i, states)
ParallelRacer_each_step(input, states) ==
    LET take_index == RacerTakeIndex(states)
    IN  IF take_index = None
        THEN StNonterminal(states)
        ELSE LET val == SwapRemove(states, take_index.st)
             IN  RacerExitArm(take_index.st, val.val)

\* ParallelRunner::each_step, the test of any(): some child is still pending
RunnerAnyPendingAll(states) ==
    \A k \in 1..Len(states) :
        states[k].tag = "Nonterminal" /\ states[k].val.tag = "Nonterminal"

RunnerAnyPending(states) ==
    \E k \in 1..Len(states) :
        states[k].tag = "Nonterminal" /\ states[k].val.tag = "Nonterminal"

\* ParallelRunner::each_step, the map of the exit vector
RunnerExitItem(val) ==
    IF val.tag = "Nonterminal"
    THEN StNonterminal(val.val.val)
    ELSE StTerminal(val.val)

\* ParallelRunner::each_step(&self, _i, states)
ParallelRunner_each_step(input, states) ==
    IF RunnerAnyPending(states)
    THEN StNonterminal(states)
    ELSE StTerminal([k \in 1..Len(states) |-> RunnerExitItem(states[k])])

\* what a step of a parallel node hands back: its result, the collection it
\* now owns, the child results and the call log
ParOut(res, coll, states, log) ==
    [res |-> res, coll |-> coll, states |-> states, log |-> log]

\* ParallelBranchNode::step(self, input) with decider D
ParallelBranchNode_step(coll, input, decider) ==
    LET r == Slice_transition(coll, input)
        decision == IF decider = "Racer"
                    THEN ParallelRacer_each_step(input, r.items)
                    ELSE ParallelRunner_each_step(input, r.items)
        log == Append(r.log, DecideEvent(r.items))
    IN  IF decision.tag = "Nonterminal"
        THEN ParOut(StNonterminal(decision.val), r.coll, r.items, log)
        ELSE ParOut(StTerminal(decision.val), <<>>, r.items, log)

\* the pass over the children in HomogeneousParallelNode::step: each node is
\* stepped and the results are unzipped into states and Option<node>
RECURSIVE HomogMap(_, _, _, _)
HomogMap(order, i, input, acc) ==
    IF i > Len(order)
    THEN acc
    ELSE LET k == order[i]
             r == CyclerNode_step(acc.coll[k], input)
         IN  HomogMap(order, i + 1, input,
                 Gathered(Append(acc.items,
                                 IF r.tag = "Nonterminal"
                                 THEN StNonterminal(r.val)
                                 ELSE StTerminal(r.val)),
                          [acc.coll EXCEPT ![k] = IF r.tag = "Nonterminal"
                                                  THEN r.node
                                                  ELSE NoChild],
                          Append(acc.log, StepEvent(k, input))))

\* the closure of Decision::Stay applied to the nonterminal of a child; reset
\* is the set of nested statepoint tags the closure selects
Closure(reset, n) == n.tag \in reset

\* the closures a ParallelDecider can hand back
Closures == SUBSET {"Nonterminal", "Terminal"}

\* Decision::Stay(i, _) and Decision::Exit(x)
Stay(i) == [kind |-> "Stay", reset |-> i, x |-> 0]

Exit(x) == [kind |-> "Exit", reset |-> {}, x |-> x]

\* the decisions D::each_step can take
HomogDecisions == {Stay(i) : i \in Closures} \cup {Exit(x) : x \in ExitValues}

\* C::get_for(count): a node constructed as the node of that slot is
get_for(cfg, count) == Cycler_default(cfg[count + 1])

\* HomogeneousParallelNode::step, the match on state inside Decision::Stay:
\* the node of the slot is kept
HomogKeepsInverted(i, state) ==
    state.tag = "Nonterminal" /\ Closure(i, state.val)

HomogKeeps(i, state) ==
    state.tag = "Nonterminal" /\ ~Closure(i, state.val)

\* HomogeneousParallelNode::step, arm Decision::Stay: the new collection
HomogStayArmKeptOnly(states, nodes, i, cfg) ==
    SelectSeq(nodes, LAMBDA n : n # NoChild)

HomogStayArm(states, nodes, i, cfg) ==
    [k \in 1..Len(nodes) |->
        IF HomogKeeps(i, states[k]) THEN nodes[k] ELSE get_for(cfg, k - 1)]

\* HomogeneousParallelNode::step(self, input); decision is what D::each_step
\* returns for the states
HomogeneousParallelNode_step(coll, input, decision, cfg) ==
    LET r == HomogMap(IterOrder(Len(coll)), 1, input, Gathered(<<>>, coll, <<>>))
        log == Append(r.log, DecideEvent(r.items))
    IN  IF decision.kind = "Stay"
        THEN ParOut(StNonterminal(r.items),
                    HomogStayArm(r.items, r.coll, decision.reset, cfg),
                    r.items, log)
        ELSE ParOut(StTerminal(decision.x), <<>>, r.items, log)

\* the parallel nodes the host can be handed
ParKinds == {"Racer", "Runner", "Homogeneous"}

\* ParallelBranchNode::default() / HomogeneousParallelNode::new(): every
\* child is default-constructed
ParInit ==
    /\ parKind \in ParKinds
    /\ \E n \in 1..NumSlots :
         parCfg \in [1..n -> {SlotCfg(p, w) : p \in Periods, w \in BOOLEAN}]
    /\ parColl = [k \in 1..Len(parCfg) |-> Cycler_default(parCfg[k])]
    /\ parLive = TRUE
    /\ parResult = [tag |-> "None", val |-> 0]
    /\ parCall = [input |-> 0, states |-> <<>>, log |-> <<>>, dec |-> Stay({})]
    /\ parTick = 0

\* no parallel node is part of the run
ParIdle ==
    /\ parKind = "Idle"
    /\ parCfg = <<>>
    /\ parColl = <<>>
    /\ parLive = FALSE
    /\ parResult = [tag |-> "None", val |-> 0]
    /\ parCall = [input |-> 0, states |-> <<>>, log |-> <<>>, dec |-> Stay({})]
    /\ parTick = 0

\* the state after a call that handed back o
ParApply(o, input, dec) ==
    /\ parTick < MaxTicks
    /\ parColl' = o.coll
    /\ parLive' = (o.res.tag = "Nonterminal")
    /\ parResult' = o.res
    /\ parCall' = [input |-> input, states |-> o.states, log |-> o.log,
                   dec |-> dec]
    /\ parTick' = parTick + 1
    /\ UNCHANGED <<parKind, parCfg>>
    /\ UNCHANGED <<pdVars, ndVars, cmVars, bmVars>>

\* the host steps the ParallelBranchNode it holds
ParBranchStep ==
    /\ parKind \in {"Racer", "Runner"} /\ parLive
    /\ \E input \in ParInputs :
         LET o == ParallelBranchNode_step(parColl, input, parKind)
         IN  ParApply(o, input,
                      IF o.res.tag = "Nonterminal" THEN Stay({})
                      ELSE Exit(o.res.val))

\* the host steps the HomogeneousParallelNode it holds
ParHomogeneousStep ==
    /\ parKind = "Homogeneous" /\ parLive
    /\ \E input \in ParInputs, decision \in HomogDecisions :
         LET o == HomogeneousParallelNode_step(parColl, input, decision, parCfg)
         IN  ParApply(o, input, decision)

\* the child results a decider can be handed on one tick
TickStates ==
    {StNonterminal(v) : v \in {0, 1}} \cup {StTerminal(t) : t \in {1, 2, 3}}

StateVectors == UNION {[1..n -> TickStates] : n \in 1..3}

\* the host holds a ParallelRacer and no node
RacerInit ==
    /\ parKind = "RacerDecider"
    /\ parCfg = <<>>
    /\ parColl = <<>>
    /\ parLive = FALSE
    /\ parResult = [tag |-> "None", val |-> 0]
    /\ parCall = [input |-> 0, states |-> <<>>, log |-> <<>>, dec |-> Stay({})]
    /\ parTick = 0

\* the host calls ParallelRacer::each_step with the child results of a tick
RacerEachStep ==
    /\ parKind = "RacerDecider"
    /\ \E input \in ParInputs, states \in StateVectors :
         /\ parResult' = ParallelRacer_each_step(input, states)
         /\ parCall' = [parCall EXCEPT !.input = input, !.states = states]
    /\ UNCHANGED <<parKind, parCfg, parColl, parLive, parTick>>
    /\ UNCHANGED <<pdVars, ndVars, cmVars, bmVars>>

\* heterogeneous_parallel_node::NontermReturn::{NontermBoth, TermANotB,
\* TermBNotA, TermBoth}(s, t)
HetNontermReturn(variant, s, t) == [variant |-> variant, a |-> s, b |-> t]

\* what the four functions of a ParallelBranchDecider can return
HetNontermDecisions == {"Step", "ResetA", "ResetB", "ResetBoth", "Exit"}

HetTermADecisions == {"StepB", "ResetB", "Exit"}

HetTermBDecisions == {"StepA", "ResetA", "Exit"}

HetTermBothDecisions == {"Reset", "Exit"}

\* what a step of the heterogeneous node hands back: its result, the two
\* children it now owns, the child instances it stepped and the decision
HetOut(res, coll, log, dec) ==
    [res |-> res, coll |-> coll, log |-> log, dec |-> dec]

\* HeterogeneousParallelNode::step, arm (Terminal(s), Nonterminal(t, b)) with
\* TermADecision::StepB: new(A::default(), b)
HetTermAStepBArmKept(s, t, b, newId) ==
    [res |-> [tag |-> "Nonterminal", val |-> HetNontermReturn("TermANotB", s, t)],
     coll |-> <<[Leaf_default(newId) EXCEPT !.st = s], b>>]

HetTermAStepBArm(s, t, b, newId) ==
    [res |-> [tag |-> "Nonterminal", val |-> HetNontermReturn("TermANotB", s, t)],
     coll |-> <<Leaf_default(newId), b>>]

\* HeterogeneousParallelNode::step(self, input): input is the pair handed to
\* the two children, dn, da, db and dboth what D::on_nonterm, D::on_aterm,
\* D::on_bterm and D::on_bothterm return, x the value an Exit carries
HeterogeneousParallelNode_step(machine_a, machine_b, input, dn, da, db, dboth, x, newId) ==
    LET ra == MachineWrapper_step(machine_a, input[1])
        rb == MachineWrapper_step(machine_b, input[2])
        log == <<machine_a.id, machine_b.id>>
        nt(variant) ==
            [tag |-> "Nonterminal",
             val |-> HetNontermReturn(variant, ra.val, rb.val)]
        exit == HetOut(Terminal(x), <<>>, log, "Exit")
    IN  CASE ra.tag = "Nonterminal" /\ rb.tag = "Nonterminal" ->
               (CASE dn = "Step" ->
                       HetOut(nt("NontermBoth"), <<ra.node, rb.node>>, log, dn)
                  [] dn = "ResetA" ->
                       HetOut(nt("NontermBoth"),
                               <<Leaf_default(newId), rb.node>>, log, dn)
                  [] dn = "ResetB" ->
                       HetOut(nt("NontermBoth"),
                               <<ra.node, Leaf_default(newId)>>, log, dn)
                  [] dn = "ResetBoth" ->
                       HetOut(nt("NontermBoth"),
                               <<Leaf_default(newId), Leaf_default(newId + 1)>>,
                               log, dn)
                  [] dn = "Exit" -> exit)
          [] ra.tag = "Terminal" /\ rb.tag = "Nonterminal" ->
               (CASE da = "StepB" ->
                       LET o == HetTermAStepBArm(ra.val, rb.val, rb.node, newId)
                       IN  HetOut(o.res, o.coll, log, da)
                  [] da = "ResetB" ->
                       HetOut(nt("TermANotB"),
                               <<Leaf_default(newId), Leaf_default(newId + 1)>>,
                               log, da)
                  [] da = "Exit" -> exit)
          [] ra.tag = "Nonterminal" /\ rb.tag = "Terminal" ->
               (CASE db = "StepA" ->
                       HetOut(nt("TermBNotA"),
                               <<ra.node, Leaf_default(newId)>>, log, db)
                  [] db = "ResetA" ->
                       HetOut(nt("TermBNotA"),
                               <<Leaf_default(newId), Leaf_default(newId + 1)>>,
                               log, db)
                  [] db = "Exit" -> exit)
          [] ra.tag = "Terminal" /\ rb.tag = "Terminal" ->
               (CASE dboth = "Reset" ->
                       HetOut(nt("TermBoth"),
                               <<Leaf_default(newId), Leaf_default(newId + 1)>>,
                               log, dboth)
                  [] dboth = "Exit" -> exit)

\* the values the decider of the host exits with
HetExits == {1}

\* inputs fed to the two children of the heterogeneous node
HetInputs == {-1, 0} \X {-1, 0}

\* HeterogeneousParallelNode::new(machine_a, machine_b) over two leaves
HetInit ==
    /\ parKind = "Heterogeneous"
    /\ parCfg = <<>>
    /\ \E sa \in 0..1, sb \in 0..1 :
         parColl = <<[Leaf_default(1) EXCEPT !.st = sa],
                     [Leaf_default(2) EXCEPT !.st = sb]>>
    /\ parLive = TRUE
    /\ parResult = [tag |-> "None", val |-> 0]
    /\ parCall = [input |-> 0, states |-> <<>>, log |-> <<>>, dec |-> Stay({})]
    /\ parTick = 0

\* the identity of the next child instance that is constructed
HetNewId(coll) ==
    1 + (IF coll[1].id > coll[2].id THEN coll[1].id ELSE coll[2].id)

\* the host steps the HeterogeneousParallelNode it holds
HetStep ==
    /\ parKind = "Heterogeneous" /\ parLive
    /\ parTick < MaxTicks
    /\ \E input \in HetInputs, dn \in HetNontermDecisions,
          da \in HetTermADecisions, db \in HetTermBDecisions,
          dboth \in HetTermBothDecisions, x \in HetExits :
         LET o == HeterogeneousParallelNode_step(
                      parColl[1], parColl[2], input, dn, da, db, dboth, x,
                      HetNewId(parColl))
         IN  /\ \A k \in 1..Len(o.coll) : o.coll[k].st <= MaxCount
             /\ parColl' = o.coll
             /\ parLive' = (o.res.tag = "Nonterminal")
             /\ parResult' = o.res
             /\ parCall' = [input |-> input, states |-> <<>>, log |-> o.log,
                            dec |-> o.dec]
    /\ parTick' = parTick + 1
    /\ UNCHANGED <<parKind, parCfg>>
    /\ UNCHANGED <<pdVars, ndVars, cmVars, bmVars>>

----------------------------------------------------------------------------
(* Automaton combinators: MachineSeries, MachineTee, ParallelMachines,     *)
(* LazyConstructedMachine and LazyConstructedNode over the machines of the *)
(* tests of automata_impl; next to each combinator the host steps separate *)
(* copies of the machines it was built from.                               *)

\* inputs fed to the combinators (i64 in the tests)
CmInputs == {-1, 0, 2}

\* internal states the stateful machines are constructed with
CmStates == {0, 1}

\* the machines: InternalStateMachine over ThingMachine, Echoer and
\* IndefinitePlayback, StatelessMapper over |input| -input and |&val| val+1,
\* and IndefinitePlayback with Statepoint actions under a MachineWrapper
StatefulKinds == {"ThingMachine", "IndefinitePlayback"}

StatelessKinds == {"Echoer", "Negate", "AddOne"}

Machine(kind, st) == [kind |-> kind, st |-> st]

Machines ==
    {Machine(k, s) : k \in StatefulKinds, s \in CmStates}
    \cup {Machine(k, 0) : k \in StatelessKinds}

NoMachine == [kind |-> "NoMachine", st |-> 0]

\* Automaton::transition of a machine: the action and the machine afterwards
Machine_transition(m, input) ==
    CASE m.kind = "ThingMachine" ->
           \* orig_acc = *accumulator; *accumulator += increment; orig_acc
           [act |-> m.st, next |-> [m EXCEPT !.st = m.st + input]]
      [] m.kind = "Echoer" -> [act |-> input, next |-> m]
      [] m.kind = "Negate" -> [act |-> -input, next |-> m]
      [] m.kind = "AddOne" -> [act |-> input + 1, next |-> m]
      [] m.kind = "IndefinitePlayback" -> [act |-> m.st, next |-> m]
      [] m.kind = "PlaybackPoint" ->
           [act |-> IF input > 0 THEN StNonterminal(m.st) ELSE StTerminal(m.st),
            next |-> m]

\* what a transition of a combinator hands back: the action, the machines it
\* holds afterwards and the inputs its machines were handed, in call order
CmOut(action, first, second, fed) ==
    [action |-> action, first |-> first, second |-> second, fed |-> fed]

\* MachineSeries::transition: what self.after is handed
SeriesAfterInputRaw(input, intermediate) == input

SeriesAfterInput(input, intermediate) == intermediate

\* MachineSeries::transition(&mut self, input)
MachineSeries_transition(before, after, input) ==
    LET b == Machine_transition(before, input)
        intermediate == b.act
        a == Machine_transition(after, SeriesAfterInput(input, intermediate))
    IN  CmOut(a.act, b.next, a.next,
              <<input, SeriesAfterInput(input, intermediate)>>)

\* MachineTee::transition: the pair that is returned
TeeActionSwapped(intermediate, reaction) == <<reaction, intermediate>>

TeeAction(intermediate, reaction) == <<intermediate, reaction>>

\* MachineTee::transition(&mut self, input)
MachineTee_transition(before, after, input) ==
    LET b == Machine_transition(before, input)
        intermediate == b.act
        a == Machine_transition(after, intermediate)
        reaction == a.act
    IN  CmOut(TeeAction(intermediate, reaction), b.next, a.next,
              <<input, intermediate>>)

\* ParallelMachines::transition: what self.second is handed
ParallelSecondInputChained(input, firstAction) == firstAction

ParallelSecondInput(input, firstAction) == input

\* ParallelMachines::transition(&mut self, input)
ParallelMachines_transition(first, second, input) ==
    LET f == Machine_transition(first, input)
        s == Machine_transition(second, ParallelSecondInput(input, f.act))
    IN  CmOut(<<f.act, s.act>>, f.next, s.next,
              <<input, ParallelSecondInput(input, f.act)>>)

\* the constructors: |input| InternalStateMachine::new(K, *input), and
\* LazyWrapper::create for the node
CtorKinds == StatefulKinds

creation_closure(c, input) == Machine(c, input)

LazyWrapper_create(input) == Machine("PlaybackPoint", input)

\* LazyConstructedInner::Pending(c) and LazyConstructedInner::Machine(m, _)
Pending(c) == [tag |-> "Pending", ctor |-> c]

Built(m) == [tag |-> "Machine", m |-> m]

\* LazyConstructedMachine::transition, arm LazyConstructedInner::Pending(c)
LazyPendingArmStepped(c, input) ==
    Machine_transition(creation_closure(c, input), input).next

LazyPendingArm(c, input) == creation_closure(c, input)

\* LazyConstructedMachine::transition, arm
\* LazyConstructedInner::Machine(m, _) => m: the machine to step and the
\* number of constructor calls the arm makes
LazyMachineArmRebuilt(m, input) ==
    [m |-> creation_closure(m.kind, input), ctor |-> 1]

LazyMachineArm(m, input) == [m |-> m, ctor |-> 0]

\* LazyConstructedMachine::transition(&mut self, input); ctor counts the
\* constructor calls made on the way
LazyConstructedMachine_transition(internal, input) ==
    LET taken == IF internal.tag = "Machine"
                 THEN LazyMachineArm(internal.m, input)
                 ELSE [m |-> LazyPendingArm(internal.ctor, input), ctor |-> 1]
        r == Machine_transition(taken.m, input)
    IN  [action |-> r.act, first |-> Built(r.next), second |-> NoMachine,
         fed |-> <<input>>, ctor |-> taken.ctor]

\* LazyConstructedNode::step(self, input): the node is a MachineWrapper
LazyConstructedNode_step(inside, input) ==
    LET node == IF inside.tag = "Machine"
                THEN inside.m
                ELSE LazyWrapper_create(input)
        r == Machine_transition(node, input)
    IN  IF r.act.tag = "Nonterminal"
        THEN CmOut(r.act, Built(r.next), NoMachine, <<input>>)
        ELSE CmOut(r.act, NoMachine, NoMachine, <<input>>)

\* the mapping a map wrapper holds: InMap and OutMap of the tests
MapKinds == {"InMap", "OutMap"}

Mapper(w) == [kind |-> w, st |-> 0]

\* InMap::input_transform(&self, input) and the same for OutMap's function
InputMachineMap_input_transform(w, input) ==
    CASE w.kind = "InMap" -> -input
      [] w.kind = "OutMap" -> input + 1

\* OutMap::output_transform(&self, val) and the same for InMap's function
OutputMachineMap_output_transform(w, val) ==
    CASE w.kind = "InMap" -> -val
      [] w.kind = "OutMap" -> val + 1

\* InputMappedMachine::transition: what self.machine is handed
InputMappedFeedRaw(wrapper, input) == input

InputMappedFeed(wrapper, input) == InputMachineMap_input_transform(wrapper, input)

\* InputMappedMachine::transition(&mut self, input)
InputMappedMachine_transition(machine, wrapper, input) ==
    LET m == Machine_transition(machine, InputMappedFeed(wrapper, input))
    IN  CmOut(m.act, m.next, wrapper, <<InputMappedFeed(wrapper, input)>>)

\* OutputMappedMachine::transition(&mut self, input)
OutputMappedMachine_transition(machine, wrapper, input) ==
    LET m == Machine_transition(machine, input)
    IN  CmOut(OutputMachineMap_output_transform(wrapper, m.act), m.next, wrapper, <<input>>)

\* the combinators the host can be handed
CmKinds ==
    {"Series", "Tee", "Parallel", "Lazy", "LazyExisting", "LazyNode",
     "InputMapped", "OutputMapped"}

\* the last call before any call was made
NoCall == [input |-> 0, fed |-> <<>>]

\* MachineSeries::new, MachineTee::new, ParallelMachines::new over two
\* machines, LazyConstructedMachine::new and LazyConstructedNode::new over a
\* constructor, LazyConstructedMachine::from_existing over a machine
\* ("LazyExisting"); the host keeps copies of the machines
CmInit ==
    /\ cmKind \in CmKinds
    /\ IF cmKind \in {"Series", "Tee", "Parallel"}
       THEN /\ cmFirst \in Machines
            /\ cmSecond \in Machines
            /\ cmRefFirst = cmFirst
            /\ cmRefSecond = cmSecond
       ELSE IF cmKind \in {"InputMapped", "OutputMapped"}
       THEN /\ cmFirst \in Machines
            /\ \E w \in MapKinds : cmSecond = Mapper(w)
            /\ cmRefFirst = cmFirst
            /\ cmRefSecond = cmSecond
       ELSE IF cmKind = "LazyExisting"
       THEN /\ \E m \in Machines : cmFirst = Built(m)
            /\ cmSecond = NoMachine
            /\ cmRefFirst = cmFirst.m
            /\ cmRefSecond = NoMachine
       ELSE /\ \E c \in (IF cmKind = "Lazy" THEN CtorKinds ELSE {"PlaybackPoint"}) :
                 cmFirst = Pending(c)
            /\ cmSecond = NoMachine
            /\ cmRefFirst = NoMachine
            /\ cmRefSecond = NoMachine
    /\ cmLive = TRUE
    /\ cmAction = None
    /\ cmRefAction = None
    /\ cmCall = NoCall
    /\ cmInputs = <<>>
    /\ cmBuilds = 0

\* no combinator is part of the run
CmIdle ==
    /\ cmKind = "Idle"
    /\ cmFirst = NoMachine
    /\ cmSecond = NoMachine
    /\ cmRefFirst = NoMachine
    /\ cmRefSecond = NoMachine
    /\ cmLive = FALSE
    /\ cmAction = None
    /\ cmRefAction = None
    /\ cmCall = NoCall
    /\ cmInputs = <<>>
    /\ cmBuilds = 0

\* the state after a call of the combinator that handed back o, next to the
\* separate copies that returned refAction and became refFirst and refSecond
CmApply(o, input, refAction, refFirst, refSecond) ==
    /\ Len(cmInputs) < MaxCalls
    /\ cmFirst' = o.first
    /\ cmSecond' = o.second
    /\ cmAction' = Some(o.action)
    /\ cmCall' = [input |-> input, fed |-> o.fed]
    /\ cmRefAction' = Some(refAction)
    /\ cmRefFirst' = refFirst
    /\ cmRefSecond' = refSecond
    /\ cmInputs' = Append(cmInputs, input)
    /\ UNCHANGED cmKind
    /\ UNCHANGED <<pdVars, ndVars, parVars, bmVars>>

\* the host calls MachineSeries::transition, and on the copies
\* B.transition(&A.transition(input))
CmSeriesTransition ==
    /\ cmKind = "Series"
    /\ \E input \in CmInputs :
         LET o == MachineSeries_transition(cmFirst, cmSecond, input)
             a == Machine_transition(cmRefFirst, input)
             b == Machine_transition(cmRefSecond, a.act)
         IN  /\ CmApply(o, input, b.act, a.next, b.next)
             /\ UNCHANGED <<cmLive, cmBuilds>>

\* the host calls MachineTee::transition, and on the copies A.transition(input)
\* and then B.transition(&a)
CmTeeTransition ==
    /\ cmKind = "Tee"
    /\ \E input \in CmInputs :
         LET o == MachineTee_transition(cmFirst, cmSecond, input)
             a == Machine_transition(cmRefFirst, input)
             b == Machine_transition(cmRefSecond, a.act)
         IN  /\ CmApply(o, input, <<a.act, b.act>>, a.next, b.next)
             /\ UNCHANGED <<cmLive, cmBuilds>>

\* the host calls ParallelMachines::transition, and on the copies
\* A.transition(input) and B.transition(input)
CmParallelTransition ==
    /\ cmKind = "Parallel"
    /\ \E input \in CmInputs :
         LET o == ParallelMachines_transition(cmFirst, cmSecond, input)
             a == Machine_transition(cmRefFirst, input)
             b == Machine_transition(cmRefSecond, input)
         IN  /\ CmApply(o, input, <<a.act, b.act>>, a.next, b.next)
             /\ UNCHANGED <<cmLive, cmBuilds>>

\* the machine the host builds itself with the constructor and its first input
HostBuilt(input) ==
    IF cmInputs = <<>> /\ cmKind # "LazyExisting"
    THEN IF cmKind = "Lazy"
         THEN creation_closure(cmFirst.ctor, input)
         ELSE LazyWrapper_create(input)
    ELSE cmRefFirst

\* the host calls LazyConstructedMachine::transition, and steps the machine
\* it built itself
CmLazyTransition ==
    /\ cmKind \in {"Lazy", "LazyExisting"}
    /\ \E input \in CmInputs :
         LET o == LazyConstructedMachine_transition(cmFirst, input)
             a == Machine_transition(HostBuilt(input), input)
         IN  /\ CmApply(o, input, a.act, a.next, NoMachine)
             /\ cmBuilds' = cmBuilds + o.ctor
             /\ UNCHANGED cmLive

\* the host steps the LazyConstructedNode it holds, and the node it built
\* itself
CmLazyNodeStep ==
    /\ cmKind = "LazyNode" /\ cmLive
    /\ \E input \in CmInputs :
         LET o == LazyConstructedNode_step(cmFirst, input)
             a == Machine_transition(HostBuilt(input), input)
         IN  /\ CmApply(o, input, a.act,
                        IF a.act.tag = "Nonterminal" THEN a.next ELSE NoMachine,
                        NoMachine)
             /\ cmLive' = (o.action.tag = "Nonterminal")
             /\ cmBuilds' = cmBuilds + (IF cmFirst.tag = "Pending" THEN 1 ELSE 0)

\* the host calls InputMappedMachine::transition, and on the copy
\* M.transition(&f(input))
CmInputMappedTransition ==
    /\ cmKind = "InputMapped"
    /\ \E input \in CmInputs :
         LET o == InputMappedMachine_transition(cmFirst, cmSecond, input)
             a == Machine_transition(cmRefFirst,
                                     InputMachineMap_input_transform(cmRefSecond, input))
         IN  /\ CmApply(o, input, a.act, a.next, cmRefSecond)
             /\ UNCHANGED <<cmLive, cmBuilds>>

\* the host calls OutputMappedMachine::transition, and on the copy
\* g(M.transition(input))
CmOutputMappedTransition ==
    /\ cmKind = "OutputMapped"
    /\ \E input \in CmInputs :
         LET o == OutputMappedMachine_transition(cmFirst, cmSecond, input)
             a == Machine_transition(cmRefFirst, input)
         IN  /\ CmApply(o, input, OutputMachineMap_output_transform(cmRefSecond, a.act),
                        a.next, cmRefSecond)
             /\ UNCHANGED <<cmLive, cmBuilds>>

----------------------------------------------------------------------------
(* Base state machines: RefStateMachine over ThingBob, DualStateMachine    *)
(* over ThingMachine and InternalStateMachine over the accumulator, and a  *)
(* duplicate the host makes of the machine (they are Copy).                *)

\* the machines that are FiniteStateAutomaton (Copy)
FiniteKinds == {"Ref", "Dual", "Internal"}

\* the base machines the host can be handed: the above and the NodeRunner
BmKinds == FiniteKinds \cup {"Runner"}

\* inputs of the machines: bool for ThingBob, i64 for the others
BmInputs(kind) ==
    CASE kind = "Ref" -> BOOLEAN
      [] kind = "Runner" -> NdInputs
      [] OTHER -> {0, 1, 2}

\* the step function's own states: enum ThingBob, enum ThingMachine and the
\* stateless stepper of the InternalStateMachine
BmFns(kind) ==
    CASE kind = "Ref" -> {"XorSwap0", "XorSwap1"}
      [] kind = "Dual" -> {"Add", "Subtract"}
      [] kind = "Internal" -> {"Stepper"}
      [] kind = "Runner" -> {[Leaf_default(1) EXCEPT !.st = st] : st \in 0..1}

\* the machine: state_fn / current_state : Option<C>, and internal
BaseMachine(fn, internal) == [fn |-> fn, internal |-> internal]

\* <ThingBob as ReferenceTransition>::step(self, input)
ThingBob_step(self, input) ==
    CASE self = "XorSwap0" ->
           IF input THEN [act |-> FALSE, next |-> "XorSwap1"]
                    ELSE [act |-> FALSE, next |-> "XorSwap0"]
      [] self = "XorSwap1" ->
           IF input THEN [act |-> TRUE, next |-> "XorSwap0"]
                    ELSE [act |-> TRUE, next |-> "XorSwap1"]

\* <ThingMachine as DualTransition>::step(self, input, state)
DualThingMachine_step(self, input, state) ==
    CASE self = "Add" ->
           IF input = 0
           THEN [act |-> state, next |-> "Subtract", st |-> state]
           ELSE [act |-> state + input, next |-> "Add", st |-> state + input]
      [] self = "Subtract" ->
           IF input = 0
           THEN [act |-> state, next |-> "Add", st |-> state]
           ELSE [act |-> state - input, next |-> "Subtract", st |-> state - input]

\* what a transition of a base machine hands back: the outcome of the call
\* (an action, the panic of the step function, or the panic of expect), the
\* machine afterwards and whether the step function was called
BmOut(kind, val, machine, stepped) ==
    [kind |-> kind, val |-> val, machine |-> machine, stepped |-> stepped]

\* .take().expect("State machine was poisoned"): the step function to call
TakeOrDefault(option, default) ==
    IF option = None THEN [ok |-> TRUE, fn |-> default]
    ELSE [ok |-> TRUE, fn |-> option.st]

TakeExpect(option, default) ==
    IF option = None THEN [ok |-> FALSE, fn |-> default]
    ELSE [ok |-> TRUE, fn |-> option.st]

\* RefStateMachine::transition when step returned (action, new_fn)
RefReturnArmStale(m, r) ==
    BmOut("Action", r.act, BaseMachine(m.fn, m.internal), TRUE)

RefReturnArmEmpty(m, r) ==
    BmOut("Action", r.act, BaseMachine(None, m.internal), TRUE)

RefReturnArm(m, r) ==
    BmOut("Action", r.act, BaseMachine(Some(r.next), m.internal), TRUE)

\* RefStateMachine::transition(&mut self, input); panics says whether the
\* step function panics on this call
RefStateMachine_transition(m, input, panics) ==
    LET taken == TakeExpect(m.fn, "XorSwap0")
    IN  IF ~taken.ok
        THEN BmOut("Poisoned", 0, BaseMachine(None, m.internal), FALSE)
        ELSE IF panics
        THEN BmOut("Panic", 0, BaseMachine(None, m.internal), TRUE)
        ELSE LET r == ThingBob_step(taken.fn, input)
             IN  RefReturnArm(m, r)

\* DualStateMachine::transition when step returned: the action, with the
\* new step function written back and internal as step left it
DualReturnArm(r, mutated) ==
    BmOut("Action", r.act, BaseMachine(Some(r.next), r.st), TRUE)

\* DualStateMachine::transition(&mut self, input); a panicking step function
\* may or may not have written to internal before it panicked
DualStateMachine_transition(m, input, panics, mutated) ==
    LET taken == TakeExpect(m.fn, "Add")
    IN  IF ~taken.ok
        THEN BmOut("Poisoned", 0, BaseMachine(None, m.internal), FALSE)
        ELSE LET r == DualThingMachine_step(taken.fn, input, m.internal)
             IN  IF panics
                 THEN BmOut("Panic", 0,
                            BaseMachine(None, IF mutated THEN r.st
                                              ELSE m.internal),
                            TRUE)
                 ELSE DualReturnArm(r, mutated)

\* InternalStateMachine::transition(&mut self, input): the stepper is called
\* in place
InternalStateMachine_transition(m, input) ==
    LET r == Machine_transition(Machine("ThingMachine", m.internal), input)
    IN  BmOut("Action", r.act, BaseMachine(m.fn, r.next.st), TRUE)

\* node_runner_transition when n.step(input) panics: the unwind leaves the
\* slot as swap left it
RunnerPanicArmDefault(n) == Some(Leaf_default(n.id))

RunnerPanicArm(n) == None

\* NodeRunner::transition(&mut self, input); panics says whether the wrapped
\* node's step panics on this call
NodeRunner_transition(m, input, panics) ==
    IF m.fn # None /\ panics
    THEN BmOut("Panic", 0, BaseMachine(RunnerPanicArm(m.fn.st), m.internal),
               TRUE)
    ELSE LET o == node_runner_transition(
                      IF m.fn = None THEN NoChild ELSE m.fn.st, input, 1)
         IN  BmOut(IF o.res.tag = "Poisoned" THEN "Poisoned" ELSE "Action",
                   IF o.res.tag = "Poisoned" THEN 0
                   ELSE [tag |-> o.res.tag, val |-> o.res.val],
                   BaseMachine(IF o.child = NoChild THEN None
                               ELSE Some(o.child), m.internal),
                   o.stepped # 0)

\* Automaton::transition of the machine of the given kind
Base_transition(kind, m, input, panics, mutated) ==
    CASE kind = "Ref" -> RefStateMachine_transition(m, input, panics)
      [] kind = "Dual" -> DualStateMachine_transition(m, input, panics, mutated)
      [] kind = "Internal" -> InternalStateMachine_transition(m, input)
      [] kind = "Runner" -> NodeRunner_transition(m, input, panics)

\* the host has made no duplicate
NoCopy == [fn |-> [tag |-> "NoCopy"], internal |-> 0]

\* #[derive(Copy, Clone)] on RefStateMachine, DualStateMachine and
\* InternalStateMachine: the duplicate is a value of its own that holds a
\* copy of every field; shared says whether it lives in the storage of the
\* machine it was copied from
derive_CopyAliased(m) ==
    [machine |-> BaseMachine(m.fn, m.internal), shared |-> TRUE]

derive_Copy(m) ==
    [machine |-> BaseMachine(m.fn, m.internal), shared |-> FALSE]

\* what a second machine holds after a transition has written the fields of
\* the first through &mut self: the same as before, unless the two share
\* their storage
WrittenThrough(shared, other, written) == IF shared THEN written ELSE other

\* the outcome of a call as the host sees it
BmResult(o) == [kind |-> o.kind, val |-> o.val]

NoResult == [kind |-> "None", val |-> 0]

\* RefStateMachine::new, DualStateMachine::new, InternalStateMachine::new;
\* bmPanicOn holds the input on which the step function panics, if any
BmInit ==
    /\ bmKind \in BmKinds
    /\ \E fn \in BmFns(bmKind) : bmMachine = BaseMachine(Some(fn), 0)
    /\ bmPanicOn \in {{}} \cup (IF bmKind = "Internal" THEN {}
                               ELSE {{i} : i \in BmInputs(bmKind)})
    /\ bmCopy = NoCopy
    /\ bmShared = FALSE
    /\ bmResult = NoResult
    /\ bmStepped = FALSE
    /\ bmPanicked = FALSE
    /\ bmHist = <<>>
    /\ bmCopyHist = <<>>
    /\ bmCalls = 0
    /\ bmInput = 0

\* no base machine is part of the run
BmIdle ==
    /\ bmKind = "Idle"
    /\ bmMachine = NoCopy
    /\ bmPanicOn = {}
    /\ bmCopy = NoCopy
    /\ bmShared = FALSE
    /\ bmResult = NoResult
    /\ bmStepped = FALSE
    /\ bmPanicked = FALSE
    /\ bmHist = <<>>
    /\ bmCopyHist = <<>>
    /\ bmCalls = 0
    /\ bmInput = 0

\* one call as the host records it
BmEntry(input, o) == [input |-> input, res |-> BmResult(o)]

\* the host calls transition on the machine
BmTransition ==
    /\ bmKind \in BmKinds
    /\ bmCalls < MaxCalls
    /\ \E input \in BmInputs(bmKind), mutated \in BOOLEAN :
         LET o == Base_transition(bmKind, bmMachine, input,
                                  input \in bmPanicOn, mutated)
         IN  /\ bmMachine' = o.machine
             /\ bmResult' = BmResult(o)
             /\ bmStepped' = o.stepped
             /\ bmPanicked' = (bmPanicked \/ o.kind = "Panic")
             /\ bmHist' = IF bmCopy = NoCopy THEN bmHist
                          ELSE Append(bmHist, BmEntry(input, o))
             /\ bmInput' = input
             /\ bmCopy' = WrittenThrough(bmShared, bmCopy, o.machine)
    /\ bmCalls' = bmCalls + 1
    /\ UNCHANGED <<bmKind, bmPanicOn, bmCopyHist, bmShared>>
    /\ UNCHANGED <<pdVars, ndVars, parVars, cmVars>>

\* the host duplicates the machine (Copy / Clone)
BmDuplicate ==
    /\ bmKind \in FiniteKinds
    /\ bmCopy = NoCopy
    /\ LET d == derive_Copy(bmMachine)
       IN  /\ bmCopy' = d.machine
           /\ bmShared' = d.shared
    /\ UNCHANGED <<bmKind, bmMachine, bmPanicOn, bmResult, bmStepped,
                   bmPanicked, bmHist, bmCopyHist, bmCalls, bmInput>>
    /\ UNCHANGED <<pdVars, ndVars, parVars, cmVars>>

\* the host calls transition on the duplicate
BmCopyTransition ==
    /\ bmKind \in BmKinds
    /\ bmCopy # NoCopy
    /\ bmCalls < MaxCalls
    /\ \E input \in BmInputs(bmKind), mutated \in BOOLEAN :
         LET o == Base_transition(bmKind, bmCopy, input,
                                  input \in bmPanicOn, mutated)
         IN  /\ bmCopy' = o.machine
             /\ bmMachine' = WrittenThrough(bmShared, bmMachine, o.machine)
             /\ bmCopyHist' = Append(bmCopyHist, BmEntry(input, o))
    /\ bmCalls' = bmCalls + 1
    /\ UNCHANGED <<bmKind, bmPanicOn, bmShared, bmResult, bmStepped,
                   bmPanicked, bmHist, bmInput>>
    /\ UNCHANGED <<pdVars, ndVars, parVars, cmVars>>

----------------------------------------------------------------------------
(* Specifications. *)

PdNext == PdTransition

PdSpecInit == PdInit /\ NdIdle /\ ParIdle /\ CmIdle /\ BmIdle

SpecPushdown == PdSpecInit /\ [][PdNext]_vars

NdNext ==
    \/ NdSerialStep
    \/ NdSerialRunnerStep
    \/ NdSerialSelectorStep
    \/ NdSerialRepeaterStep
    \/ NdLeafStep
    \/ NdRunnerTransition
    \/ NdGuardedStep
    \/ NdStepControlledStep
    \/ NdPostResetStep
    \/ NdInputMappedStep
    \/ NdOutputMappedStep

NdSpecInit == NdInit /\ PdIdle /\ ParIdle /\ CmIdle /\ BmIdle

SpecNodes == NdSpecInit /\ [][NdNext]_vars

ParNext ==
    \/ ParBranchStep
    \/ ParHomogeneousStep

ParSpecInit == ParInit /\ PdIdle /\ NdIdle /\ CmIdle /\ BmIdle

SpecParallel == ParSpecInit /\ [][ParNext]_vars

RacerNext == RacerEachStep

RacerSpecInit == RacerInit /\ PdIdle /\ NdIdle /\ CmIdle /\ BmIdle

SpecRacer == RacerSpecInit /\ [][RacerNext]_vars

HetNext == HetStep

HetSpecInit == HetInit /\ PdIdle /\ NdIdle /\ CmIdle /\ BmIdle

SpecHetero == HetSpecInit /\ [][HetNext]_vars

CmNext ==
    \/ CmSeriesTransition
    \/ CmTeeTransition
    \/ CmParallelTransition
    \/ CmLazyTransition
    \/ CmLazyNodeStep
    \/ CmInputMappedTransition
    \/ CmOutputMappedTransition

CmSpecInit == CmInit /\ PdIdle /\ NdIdle /\ ParIdle /\ BmIdle

SpecCombinators == CmSpecInit /\ [][CmNext]_vars

BmNext ==
    \/ BmTransition
    \/ BmDuplicate
    \/ BmCopyTransition

BmSpecInit == BmInit /\ PdIdle /\ NdIdle /\ ParIdle /\ CmIdle

SpecMachines == BmSpecInit /\ [][BmNext]_vars

\* the host holds one of the machines that take their state out of an
\* Option for the time of a transition and put it back before they return:
\* a base machine, a LazyConstructedMachine or a PushdownAutomaton
HolderKinds == {"Ref", "Dual", "Runner"}

LazyKinds == {"Lazy", "LazyExisting"}

HolderInit ==
    \/ BmSpecInit /\ bmKind \in HolderKinds
    \/ CmSpecInit /\ cmKind \in LazyKinds
    \/ PdSpecInit

\* the host calls transition on the machine it holds
HolderPdTransition == bmKind = "Idle" /\ cmKind = "Idle" /\ PdTransition

HolderNext ==
    \/ BmTransition
    \/ CmLazyTransition
    \/ HolderPdTransition

SpecHolders == HolderInit /\ [][HolderNext]_vars

----------------------------------------------------------------------------
(* Properties of the pushdown automaton.                                   *)

Last(h) == h[Len(h)]

Front(h) == SubSeq(h, 1, Len(h) - 1)

FrameIds(stack) == [i \in 1..Len(stack) |-> stack[i].id]

Returned(kind) == kind \in {"Push", "Stay", "Pop"}

\* the frame of the stack that was constructed last
IsNewest(stack, i) == \A j \in 1..Len(stack) : stack[j].id <= stack[i].id

\* C1: after k consecutive transitions that return Push the stack holds
\* exactly k frames more than when the run started, each Push puts the new
\* frame on top of the unchanged earlier frames, and a Pop removes exactly
\* the most recently pushed frame and leaves the others in their order.
C1_PushRunThenPopIsLifo ==
    /\ [](Len(pdStack) = pdRunBase + pdRunLen)
    /\ [][pdResult'.kind = "Push" =>
            /\ Len(pdStack') = Len(pdStack) + 1
            /\ FrameIds(Front(pdStack')) = FrameIds(pdStack)
            /\ Last(pdStack').id = Last(pdHist').pushed
            /\ IsNewest(pdStack', Len(pdStack'))]_vars
    /\ [][pdResult'.kind = "Pop" =>
            /\ IsNewest(pdStack, Len(pdStack))
            /\ pdStack' = Front(pdStack)]_vars

\* three Push transitions in a row, then a Pop
C1_Witness ==
    /\ Len(pdHist) >= 4
    /\ \A i \in 1..3 : pdHist[Len(pdHist) - 4 + i].kind = "Push"
    /\ Last(pdHist).kind = "Pop"
    /\ pdResult.kind = "Pop"

\* C2: a transition is serviced by the top frame when the stack is
\* non-empty and by bottom only when it is empty; when bottom pushes F1, F1
\* pushes F2 and F2 pops, the next input is serviced by F1; after a Pop that
\* empties the stack bottom is there to service the next input.
C2_ServicedByTopOrBottom ==
    /\ [][Last(pdHist').serviced =
            IF pdStack # <<>> THEN Last(pdStack).id
            ELSE IF pdBottom # None THEN BottomId ELSE NoService]_vars
    /\ [](\A i \in 1..(Len(pdHist) - 3) :
            (/\ pdHist[i].serviced = BottomId
             /\ pdHist[i].kind = "Push"
             /\ pdHist[i + 1].kind = "Push"
             /\ pdHist[i + 2].kind = "Pop")
            => /\ pdHist[i + 1].serviced = pdHist[i].pushed
               /\ pdHist[i + 2].serviced = pdHist[i + 1].pushed
               /\ pdHist[i + 3].serviced = pdHist[i].pushed)
    /\ []((pdResult.kind = "Pop" /\ pdStack = <<>>) => pdBottom # None)

\* bottom pushed F1, F1 pushed F2, F2 popped and F1 serviced the next input
C2_Witness ==
    /\ Len(pdHist) = 4
    /\ pdHist[1].serviced = BottomId /\ pdHist[1].kind = "Push"
    /\ pdHist[2].kind = "Push"
    /\ pdHist[3].kind = "Pop"
    /\ pdHist[4].serviced = pdHist[1].pushed
    /\ pdHist[4].kind = "Stay"

\* C3: one transition changes the stack depth by at most one, and a Pop
\* removes the frame that returned it and no other.
C3_PopNeverCascades ==
    [][/\ Len(pdStack') - Len(pdStack) \in {-1, 0, 1}
       /\ pdResult'.kind = "Pop" =>
            /\ Len(pdStack') = Len(pdStack) - 1
            /\ Last(pdHist').serviced = Last(pdStack).id
            /\ \A i \in 1..Len(pdStack') : pdStack'[i] = pdStack[i]]_vars

\* two frames were removed by a Pop on two successive inputs
C3_Witness ==
    /\ Len(pdHist) >= 2
    /\ pdHist[Len(pdHist) - 1].kind = "Pop"
    /\ Last(pdHist).kind = "Pop"
    /\ Len(pdStack) >= 1

\* C4: bottom is transitioned only by a call that starts with an empty
\* stack, a call that starts with a non-empty stack leaves bottom unchanged,
\* and bottom is present after every call that returns.
C4_BottomOnlyWhenEmpty ==
    [][/\ pdStack # <<>> => pdBottom' = pdBottom
       /\ Last(pdHist').serviced = BottomId => pdStack = <<>>
       /\ Returned(pdResult'.kind) => pdBottom' # None]_vars

\* a frame was serviced over a bottom that had been mutated before
C4_Witness ==
    /\ Len(pdHist) >= 2
    /\ Last(pdHist).serviced > BottomId
    /\ Last(pdHist).kind = "Stay"
    /\ pdBottom = Some(1)
    /\ \E i \in 1..Len(pdHist) :
         pdHist[i].serviced = BottomId /\ pdHist[i].kind = "Stay"

\* C5: once the call of bottom or of a frame has panicked, no later
\* transition returns an action: every later call fails.
C5_PanicPoisonsForGood ==
    [][pdResult.kind \in {"Panic", "Poisoned"} =>
         pdResult'.kind \in {"Panic", "Poisoned"}]_vars

----------------------------------------------------------------------------
(* Properties of the behavior tree node composites.                        *)

IsSerial == ndKind = "Serial"

\* C6: no child node instance is stepped after it has returned Terminal: a
\* Terminal result of a composite leaves no continuation, the child a
\* composite owns has never returned Terminal, and when the child returns
\* Terminal the composite either exits or owns a freshly constructed
\* instance in its initial state.
C6_TerminalFinality ==
    /\ [][ndCall'.stepped \notin ndTerminated]_vars
    /\ []((ndResult.tag = "Terminal" /\ ndKind # "Runner")
            => (ndChild = NoChild /\ ~ndLive))
    /\ [](ndChild # NoChild => ndChild.id \notin ndTerminated)
    /\ [][ndCall'.ctag = "Terminal" =>
            \/ ndChild' = NoChild /\ ~ndLive'
            \/ /\ ndChild'.id = ndNextId
               /\ ndChild'.id # ndCall'.stepped
               /\ ndChild'.st = 0]_vars

\* two child instances have terminated and a third, fresh one is owned
C6_Witness ==
    /\ Cardinality(ndTerminated) >= 2
    /\ ndCall.ctag = "Terminal"
    /\ ndCall.stepped \in ndTerminated
    /\ ndChild # NoChild
    /\ ndLive

\* C7: the discriminant a SerialBranchNode reports in NontermReturn is the
\* discriminant of the variant it held and stepped in that call, also when
\* the decision of the call is a transition to another variant.
C7_SerialDiscriminantFidelity ==
    [][(IsSerial /\ ndResult'.tag = "Nonterminal") =>
          /\ ndResult'.val.disc = discriminant_of(ndChild)
          /\ ndCall'.stepped = ndChild.id]_vars

\* a terminal child was reported under its own discriminant while the node
\* switched to the other variant
C7_Witness ==
    /\ IsSerial
    /\ ndResult.tag = "Nonterminal"
    /\ ndResult.val.tag = "Terminal"
    /\ ndCall.dec.kind = "Trans"
    /\ ndCall.dec.e # ndResult.val.disc
    /\ discriminant_of(ndChild) = ndCall.dec.e

\* C8: when the held child returns Terminal the serial node exits or goes
\* on with a freshly constructed instance of the variant the decision
\* names, never with the terminated child; the step after a Trans(e, _)
\* decision is made on that new instance of variant e from its initial state.
C8_SerialTerminalChildReplaced ==
    /\ [][(IsSerial /\ ndCall'.ctag = "Terminal") =>
            IF ndCall'.dec.kind = "Exit"
            THEN /\ ndResult' = Terminal(ndCall'.dec.x)
                 /\ ndChild' = NoChild
                 /\ ~ndLive'
            ELSE /\ ndCall'.dec.kind = "Trans"
                 /\ ndChild' = EnumNode_new(ndCall'.dec.e, ndNextId)
                 /\ ndChild'.id # ndChild.id
                 /\ ndChild'.id \notin ndTerminated'
                 /\ ndLive']_vars
    /\ [][(IsSerial /\ ndCall.dec.kind = "Trans") =>
            /\ ndCall'.stepped = ndChild.id
            /\ discriminant_of(ndChild) = ndCall.dec.e
            /\ ndChild.st = 0
            /\ ndResult'.tag = "Nonterminal" =>
                 /\ ndResult'.val.disc = ndCall.dec.e
                 /\ ndResult'.val.val =
                      IF ndCall'.ctag = "Nonterminal" THEN 1 ELSE 0]_vars

\* a child terminated, the node switched to the other variant and the new
\* instance has been stepped once
C8_Witness ==
    /\ IsSerial
    /\ Cardinality(ndTerminated) = 1
    /\ ndCall.ctag = "Nonterminal"
    /\ ndCall.dec.kind = "Step"
    /\ ndCall.stepped \notin ndTerminated
    /\ ndChild # NoChild
    /\ ndChild.st = 1
    /\ ndChild.id > 1

\* C9: when the held child returns Nonterminal, Step keeps the variant and
\* the child's continuation, Trans(e, _) holds a fresh instance of variant e
\* and Exit(x) returns Terminal(x); the result is tagged Nonterminal exactly
\* when the child was nonterminal, and Terminal exactly when the child was
\* terminal and the decision a transition.
C9_SerialNonterminalDecision ==
    /\ [][(IsSerial /\ ndCall'.ctag = "Nonterminal") =>
            CASE ndCall'.dec.kind = "Step" ->
                   /\ ndChild' = MultiMachine_step(ndChild, ndCall'.input).node
                   /\ ndChild'.id = ndChild.id
                   /\ discriminant_of(ndChild') = discriminant_of(ndChild)
                   /\ ndResult'.tag = "Nonterminal"
              [] ndCall'.dec.kind = "Trans" ->
                   /\ ndChild' = EnumNode_new(ndCall'.dec.e, ndNextId)
                   /\ ndChild'.id # ndChild.id
                   /\ ndResult'.tag = "Nonterminal"
              [] ndCall'.dec.kind = "Exit" ->
                   /\ ndResult' = Terminal(ndCall'.dec.x)
                   /\ ndChild' = NoChild
                   /\ ~ndLive']_vars
    /\ [][(IsSerial /\ ndResult'.tag = "Nonterminal") =>
            /\ ndResult'.val.tag = "Nonterminal" <=> ndCall'.ctag = "Nonterminal"
            /\ ndResult'.val.tag = "Terminal" <=>
                 (ndCall'.ctag = "Terminal" /\ ndCall'.dec.kind = "Trans")
            /\ ndResult'.val.val =
                 MultiMachine_step(ndChild, ndCall'.input).val]_vars

\* the continuation of the child was kept over two Step decisions
C9_Witness ==
    /\ IsSerial
    /\ ndCall.ctag = "Nonterminal"
    /\ ndCall.dec.kind = "Step"
    /\ ndChild # NoChild
    /\ ndChild.st >= 2
    /\ ndChild.id = ndCall.stepped
    /\ ndResult.val.tag = "Nonterminal"

\* C10: discriminant_of of the child a SerialBranchNode holds is the
\* discriminant the node was constructed with or last switched to: a Step
\* decision leaves it unchanged and after Trans(e, _) it is e.
C10_SerialHeldDiscriminant ==
    /\ []((IsSerial /\ ndLive) => discriminant_of(ndChild) = ndLastDisc)
    /\ [][(IsSerial /\ ndLive') =>
            /\ ndCall'.dec.kind = "Step" =>
                 discriminant_of(ndChild') = discriminant_of(ndChild)
            /\ ndCall'.dec.kind = "Trans" =>
                 discriminant_of(ndChild') = ndCall'.dec.e]_vars

\* a nonterminal child was abandoned for the other variant
C10_Witness ==
    /\ IsSerial /\ ndLive
    /\ ndCall.ctag = "Nonterminal"
    /\ ndCall.dec.kind = "Trans"
    /\ ndCall.dec.e # ndResult.val.disc
    /\ discriminant_of(ndChild) = ndCall.dec.e
    /\ ndLastDisc = ndCall.dec.e

\* C11: NodeRunner::transition returns Terminal exactly on the calls on
\* which the wrapped node's step returns Terminal and Nonterminal on all
\* others, with the child's value; after a terminal call the runner holds
\* N::default() and the next call steps it; when the wrapped node terminates
\* on its third step the runner reports Terminal exactly on calls 3, 6, 9.
C11_RunnerAutoRestart ==
    /\ [][ndKind = "Runner" =>
            /\ ndResult'.tag = ndCall'.ctag
            /\ ndResult'.tag \in {"Nonterminal", "Terminal"}
            /\ ndResult'.val = MachineWrapper_step(ndChild, ndCall'.input).val
            /\ ndCall'.stepped = ndChild.id
            /\ ndLive'
            /\ ndResult'.tag = "Terminal" =>
                 /\ ndChild' = Leaf_default(ndNextId)
                 /\ ndChild'.id \notin ndTerminated'
            /\ ndResult'.tag = "Nonterminal" =>
                 ndChild' = MachineWrapper_step(ndChild, ndCall'.input).node]_vars
    /\ [][(ndKind = "Runner" /\ ndResult.tag = "Terminal") =>
            /\ ndChild.st = 0
            /\ ndCall'.stepped = ndChild.id
            /\ ndCall'.stepped # ndCall.stepped]_vars
    /\ []((ndKind = "Runner" /\ ndThird /\ ndTick > 0) =>
            (ndResult.tag = "Terminal" <=> ndTick % 3 = 0))

\* the wrapped node terminated on its third step three times over: the
\* runner has just reported Terminal on its ninth call
C11_Witness ==
    /\ ndKind = "Runner"
    /\ ndThird
    /\ ndTick = 9
    /\ ndResult.tag = "Terminal"
    /\ Cardinality(ndTerminated) = 3

----------------------------------------------------------------------------
(* Properties of the parallel nodes.                                       *)

IsTerminal(state) == state.tag = "Terminal"

\* the collection the racer scenario starts from: a child that terminates on
\* its 2nd step and one that terminates on its 5th
RaceOfTwoAndFive == <<SlotCfg(2, FALSE), SlotCfg(5, FALSE)>>

\* C12: a ParallelBranchNode with the ParallelRacer decider returns
\* Nonterminal with the child results on every step on which no child
\* reports Terminal, and on a step on which some child reports Terminal it
\* returns Terminal((index of such a child, its terminal value)) and is gone;
\* with children terminating on steps 2 and 5 it exits on step 2 with index 0
\* and is never stepped again.
C12_RacerExitsOnFirstTerminal ==
    /\ [][parKind = "Racer" =>
            LET states == parCall'.states
            IN  IF \E k \in 1..Len(states) : IsTerminal(states[k])
                THEN /\ parResult'.tag = "Terminal"
                     /\ \E k \in 1..Len(states) :
                          /\ IsTerminal(states[k])
                          /\ parResult'.val = <<k - 1, states[k].val>>
                     /\ ~parLive'
                     /\ parColl' = <<>>
                ELSE /\ parResult' = StNonterminal(states)
                     /\ parLive']_vars
    /\ [][parLive /\ parTick' = parTick + 1]_vars
    /\ []((parKind = "Racer" /\ parCfg = RaceOfTwoAndFive) =>
            /\ parTick = 1 => (parResult.tag = "Nonterminal" /\ parLive)
            /\ parTick >= 2 => /\ parTick = 2
                               /\ parResult = StTerminal(<<0, 2>>)
                               /\ ~parLive)

\* the race of the two children has ended on the second step
C12_Witness ==
    /\ parKind = "Racer"
    /\ parCfg = RaceOfTwoAndFive
    /\ parTick = 2
    /\ parResult.tag = "Terminal"
    /\ parResult.val[1] = 0
    /\ ~parLive

IsPending(state) == state.tag = "Nonterminal" /\ state.val.tag = "Nonterminal"

IsTrapped(state) == state.tag = "Nonterminal" /\ state.val.tag = "Terminal"

\* C13: a ParallelBranchNode with the ParallelRunner decider exits on a step
\* exactly when every child result of that step is a trapped
\* Nonterminal(Terminal(_)) or an outright Terminal(_); while some child
\* reports Nonterminal(Nonterminal(_)) it stays and hands the state vector
\* on unchanged.
C13_RunnerExitsWhenAllTrapped ==
    [][parKind = "Runner" =>
         LET states == parCall'.states
         IN  /\ parResult'.tag = "Terminal" <=>
                  \A k \in 1..Len(states) :
                      IsTrapped(states[k]) \/ IsTerminal(states[k])
             /\ (\E k \in 1..Len(states) : IsPending(states[k])) =>
                  /\ parResult' = StNonterminal(states)
                  /\ parLive'
                  /\ Len(parColl') = Len(states)
             /\ parResult'.tag = "Terminal" =>
                  /\ ~parLive'
                  /\ Len(parResult'.val) = Len(states)
                  /\ \A k \in 1..Len(states) :
                       /\ parResult'.val[k].tag = states[k].tag
                       /\ parResult'.val[k].val =
                            IF IsTrapped(states[k]) THEN states[k].val.val
                            ELSE states[k].val]_vars

\* a trapped two-cycler and a terminated three-cycler end the run on the
\* sixth step, after five steps on which one of them was pending
C13_Witness ==
    /\ parKind = "Runner"
    /\ parCfg = <<SlotCfg(2, TRUE), SlotCfg(3, FALSE)>>
    /\ parTick = 6
    /\ parResult = StTerminal(<<StNonterminal(2), StTerminal(3)>>)
    /\ ~parLive

\* the result of stepping the child of slot k of the collection
ChildResult(k, input) ==
    LET r == CyclerNode_step(parColl[k], input)
    IN  IF r.tag = "Nonterminal" THEN StNonterminal(r.val) ELSE StTerminal(r.val)

\* C14: within one step of a parallel node every child is stepped exactly
\* once with the input of the step, in index order of the collection, and
\* the decider is called after all of them with the results in that order:
\* element k of the vector is the result of child k.
C14_ChildrenSteppedInIndexOrder ==
    [][LET n == Len(parColl)
           log == parCall'.log
           states == parCall'.states
       IN  /\ Len(log) = n + 1
           /\ \A k \in 1..n : log[k] = StepEvent(k, parCall'.input)
           /\ log[n + 1] = DecideEvent(states)
           /\ Len(states) = n
           /\ \A k \in 1..n : states[k] = ChildResult(k, parCall'.input)]_vars

\* two children were stepped with input 1 and returned different results
C14_Witness ==
    /\ Len(parCall.log) = 3
    /\ parCall.input = 1
    /\ parCall.log[1].slot = 1 /\ parCall.log[2].slot = 2
    /\ parCall.log[3].ev = "decide"
    /\ parCall.states[1].tag = "Terminal"
    /\ parCall.states[2].tag = "Nonterminal"

\* C15: the number of child slots of a parallel node is the same in every
\* state in which the node exists: a step that stays keeps as many children
\* as before, the state vector has one entry per child, and replacing or
\* resetting children does not change the count.
C15_SlotCountFixed ==
    /\ [](parLive => Len(parColl) = Len(parCfg))
    /\ [][/\ Len(parCall'.states) = Len(parColl)
           /\ parResult'.tag = "Nonterminal" =>
                /\ Len(parColl') = Len(parColl)
                /\ Len(parResult'.val) = Len(parColl)]_vars

\* a homogeneous node of two slots stayed over a step in which one child
\* terminated and the other was reset
C15_Witness ==
    /\ parKind = "Homogeneous"
    /\ parLive
    /\ parTick >= 2
    /\ Len(parColl) = 2
    /\ parCall.dec.kind = "Stay"
    /\ \E k \in 1..2 : IsTerminal(parCall.states[k])
    /\ \E k \in 1..2 : /\ parCall.states[k].tag = "Nonterminal"
                        /\ Closure(parCall.dec.reset, parCall.states[k].val)
    /\ \A k \in 1..2 : parColl[k].fresh

\* C16: when the decision of a step is Stay, every child that returned
\* Terminal is replaced in its slot by a freshly constructed instance of that
\* slot, every nonterminal child keeps its continuation unless the decision
\* selects it for reset, and the node goes on; when the decision is Exit(x)
\* the node returns Terminal(x) and keeps no child.
C16_StayReplacesTerminalChildren ==
    /\ [][parCall'.dec.kind = "Stay" =>
            /\ parResult'.tag = "Nonterminal"
            /\ parLive'
            /\ \A k \in 1..Len(parColl) :
                 LET state == parCall'.states[k]
                     selected == /\ parKind = "Homogeneous"
                                 /\ state.tag = "Nonterminal"
                                 /\ Closure(parCall'.dec.reset, state.val)
                 IN  IF IsTerminal(state) \/ selected
                     THEN /\ parColl'[k] = Cycler_default(parCfg[k])
                          /\ parColl'[k].fresh
                          /\ parColl'[k].pos = 0
                     ELSE /\ parColl'[k] =
                               CyclerNode_step(parColl[k], parCall'.input).node
                          /\ ~parColl'[k].fresh]_vars
    /\ [][parCall'.dec.kind = "Exit" =>
            /\ parResult' = StTerminal(parCall'.dec.x)
            /\ parColl' = <<>>
            /\ ~parLive']_vars

\* the terminated child of slot 1 was replaced by a fresh instance while the
\* child of slot 2 went on from where it was
C16_Witness ==
    /\ parKind = "Homogeneous"
    /\ parLive
    /\ parCall.dec.kind = "Stay"
    /\ Len(parColl) = 2
    /\ Len(parCall.states) = 2
    /\ IsTerminal(parCall.states[1])
    /\ parCall.states[2].tag = "Nonterminal"
    /\ ~Closure(parCall.dec.reset, parCall.states[2].val)
    /\ parColl[1].fresh
    /\ ~parColl[2].fresh
    /\ parColl[2].pos >= 2

----------------------------------------------------------------------------
(* Properties of the automaton combinators.                                *)

\* the combinator has returned what the separate copies returned, and holds
\* its two machines in the states of the copies
AgreesWithCopies ==
    /\ cmAction = cmRefAction
    /\ cmFirst = cmRefFirst
    /\ cmSecond = cmRefSecond

\* C17: for every input sequence the n-th action of MachineSeries(A, B) is
\* B.transition(A.transition(i_n)) as computed on separate copies of A and B
\* fed the same sequence, and A and B are in the same states on both sides;
\* B is handed A's action.
C17_SeriesIdentity ==
    /\ [](cmKind = "Series" => AgreesWithCopies)
    /\ [][cmKind = "Series" =>
            LET a == Machine_transition(cmRefFirst, cmCall'.input)
                b == Machine_transition(cmRefSecond, a.act)
            IN  /\ cmAction' = Some(b.act)
                /\ cmCall'.fed = <<cmCall'.input, a.act>>
                /\ cmFirst' = a.next
                /\ cmSecond' = b.next]_vars
    /\ []((cmKind = "Series" /\ cmInputs # <<>>) =>
            /\ (cmFirst.kind = "Negate" /\ cmSecond.kind = "Echoer") =>
                  cmAction = Some(-cmCall.input)
            /\ (cmFirst.kind = "Echoer" /\ cmSecond.kind = "AddOne") =>
                  cmAction = Some(cmCall.input + 1))

\* the fourth action of a series of two accumulating machines
C17_Witness ==
    /\ cmKind = "Series"
    /\ Len(cmInputs) = 4
    /\ cmFirst.kind = "ThingMachine"
    /\ cmSecond.kind = "ThingMachine"
    /\ cmFirst.st >= 4
    /\ cmSecond.st >= 4
    /\ cmAction.st # cmCall.input

\* C18: MachineTee(A, B).transition(i) returns the pair (a, b) with
\* a = A.transition(i) and b = B.transition(&a), the first component being
\* the value B was handed in that call, on every call of an input sequence.
C18_TeeDecomposition ==
    /\ [][cmKind = "Tee" =>
            LET a == Machine_transition(cmFirst, cmCall'.input)
                b == Machine_transition(cmSecond, a.act)
            IN  /\ cmAction' = Some(<<a.act, b.act>>)
                /\ cmCall'.fed = <<cmCall'.input, cmAction'.st[1]>>
                /\ cmFirst' = a.next
                /\ cmSecond' = b.next]_vars
    /\ [](cmKind = "Tee" => AgreesWithCopies)

\* a tee of two accumulating machines has returned a pair of different
\* values on its third call
C18_Witness ==
    /\ cmKind = "Tee"
    /\ Len(cmInputs) = 3
    /\ cmFirst.kind = "ThingMachine"
    /\ cmSecond.kind = "ThingMachine"
    /\ cmAction.st[1] > cmAction.st[2]
    /\ cmAction.st[2] > 0
    /\ cmCall.fed[2] # cmCall.input

\* C19: ParallelMachines(A, B).transition(i) returns
\* (A.transition(i), B.transition(i)) with both machines handed the same
\* input; over N calls it returns the pairs that A and B return when they
\* are stepped separately on the same inputs, and each machine moves as it
\* does on its own.
C19_ParallelIndependence ==
    /\ [][cmKind = "Parallel" =>
            LET a == Machine_transition(cmFirst, cmCall'.input)
                b == Machine_transition(cmSecond, cmCall'.input)
            IN  /\ cmAction' = Some(<<a.act, b.act>>)
                /\ cmCall'.fed = <<cmCall'.input, cmCall'.input>>
                /\ cmFirst' = a.next
                /\ cmSecond' = b.next]_vars
    /\ [](cmKind = "Parallel" => AgreesWithCopies)

\* an accumulating machine next to a negating mapper, after four calls
C19_Witness ==
    /\ cmKind = "Parallel"
    /\ Len(cmInputs) = 4
    /\ cmFirst.kind = "ThingMachine"
    /\ cmSecond.kind = "Negate"
    /\ cmFirst.st >= 4
    /\ cmAction.st[1] > 0
    /\ cmAction.st[2] = 1

\* C20: a LazyConstructedMachine given i0, i1, i2, ... returns the actions of
\* the machine ctor(i0) stepped with i0, i1, i2, ...: the first input is
\* handed to the constructor and then to the built machine as its first
\* transition input, once; likewise for LazyConstructedNode.
C20_LazyConstruction ==
    /\ []((cmKind \in {"Lazy", "LazyNode"} /\ cmInputs # <<>>) =>
            /\ cmAction = cmRefAction
            /\ cmLive => cmFirst = Built(cmRefFirst)
            /\ ~cmLive => (cmFirst = NoMachine /\ cmRefFirst = NoMachine))
    /\ [][(cmKind \in {"Lazy", "LazyNode"} /\ cmInputs = <<>>) =>
            LET built == IF cmKind = "Lazy"
                         THEN creation_closure(cmFirst.ctor, cmCall'.input)
                         ELSE LazyWrapper_create(cmCall'.input)
            IN  /\ built.st = cmCall'.input
                /\ cmAction' = Some(Machine_transition(built, cmCall'.input).act)
                /\ cmCall'.fed = <<cmCall'.input>>]_vars
    /\ [][(cmKind \in {"Lazy", "LazyNode"} /\ cmInputs # <<>>) =>
            /\ cmFirst.tag = "Machine"
            /\ cmAction' = Some(Machine_transition(cmFirst.m, cmCall'.input).act)
            /\ cmCall'.fed = <<cmCall'.input>>]_vars
    /\ []((cmKind = "Lazy" /\ cmInputs # <<>>
                /\ cmFirst.m.kind = "IndefinitePlayback") =>
            cmAction = Some(cmInputs[1]))

\* an accumulating machine constructed with 2 has returned 2 and then 4
C20_Witness ==
    /\ cmKind = "Lazy"
    /\ Len(cmInputs) = 2
    /\ cmInputs[1] = 2
    /\ cmFirst.tag = "Machine"
    /\ cmFirst.m.kind = "ThingMachine"
    /\ cmAction = Some(4)
    /\ cmRefAction = Some(4)

----------------------------------------------------------------------------
(* Properties of the base state machines. *)

\* C21: once the step function of a RefStateMachine or DualStateMachine has
\* panicked during transition, the machine holds no step function, and every
\* later transition on it fails with the poisoned panic, without invoking a
\* step function and without putting one back in its place.
C21_PanicPoisonsMachine ==
    /\ [](bmPanicked => bmMachine.fn = None)
    /\ [][(BmTransition /\ bmPanicked) =>
            /\ bmResult'.kind = "Poisoned"
            /\ ~bmStepped'
            /\ bmMachine'.fn = None]_vars

C21_Witness ==
    /\ bmKind = "Dual"
    /\ bmPanicked
    /\ bmResult.kind = "Poisoned"
    /\ ~bmStepped

\* C22: when the wrapped node's step panics while NodeRunner has taken it
\* out of its slot, the slot stays empty (no default node is put in), and
\* every later transition fails with the poisoned panic without stepping
\* any node.
C22_RunnerPanicPoisons ==
    /\ []((bmKind = "Runner" /\ bmPanicked) => bmMachine.fn = None)
    /\ [][(bmKind = "Runner" /\ bmResult.kind \in {"Panic", "Poisoned"}) =>
            /\ bmResult'.kind = "Poisoned"
            /\ ~bmStepped'
            /\ bmMachine' = bmMachine]_vars

C22_Witness ==
    /\ bmKind = "Runner"
    /\ bmPanicked
    /\ bmResult.kind = "Poisoned"
    /\ bmCalls >= 3

InputsOf(hist) == [k \in 1..Len(hist) |-> hist[k].input]

MinLen(h1, h2) == IF Len(h1) <= Len(h2) THEN Len(h1) ELSE Len(h2)

----------------------------------------------------------------------------
(* Properties of the leaf and of the serial and control composites. *)

\* C24: MachineWrapper::step transitions the wrapped machine once and
\* forwards its statepoint: on Nonterminal(n) the host gets n and the wrapper
\* holding the machine after that one transition, on Terminal(t) it gets t
\* and no wrapper; the value the machine has counted up on earlier steps is
\* what later steps continue from.
C24_MachineWrapperForwards ==
    /\ [][ndKind = "Leaf" =>
            LET a == IndefiniteIncrement_step(ndCall'.input, ndChild.st)
            IN  /\ ndCall'.stepped = ndChild.id
                /\ ndResult'.tag = a.tag
                /\ ndResult'.val = a.val
                /\ a.tag = "Nonterminal" =>
                     /\ ndLive'
                     /\ ndChild' = [ndChild EXCEPT !.st = a.st]
                /\ a.tag = "Terminal" =>
                     /\ ~ndLive'
                     /\ ndChild' = NoChild]_vars
    /\ []((ndKind = "Leaf" /\ ndLive /\ ndTick > 0) =>
            /\ ndResult.val = ndChild.st
            /\ ndChild.st - ndTick \in 0..1)
    /\ []((ndKind = "Leaf" /\ ~ndLive) =>
            ndResult.val - (ndTick - 1) \in 0..1)

\* the leaf returned Terminal with the count of its two earlier steps
C24_Witness ==
    /\ ndKind = "Leaf"
    /\ ~ndLive
    /\ ndTick = 3
    /\ ndResult = Terminal(2)

----------------------------------------------------------------------------
(* Properties of the map wrappers of automata. *)

\* C25: InputMappedMachine(f, M).transition(i) returns what M.transition
\* returns on f(i), and OutputMappedMachine(g, M).transition(i) returns g of
\* what M.transition returns on i; M is transitioned once per call, and the
\* wrapper holds M as that one transition left it and the unchanged mapping.
C25_MapWrappers ==
    /\ []((cmKind \in {"InputMapped", "OutputMapped"} /\ cmInputs # <<>>) =>
            /\ cmAction = cmRefAction
            /\ cmFirst = cmRefFirst
            /\ Len(cmCall.fed) = 1)
    /\ [][cmKind = "InputMapped" =>
            /\ cmCall'.fed = <<InputMachineMap_input_transform(cmSecond, cmCall'.input)>>
            /\ cmAction' = Some(Machine_transition(cmFirst,
                                InputMachineMap_input_transform(cmSecond, cmCall'.input)).act)
            /\ cmSecond' = cmSecond]_vars
    /\ [][cmKind = "OutputMapped" =>
            /\ cmCall'.fed = <<cmCall'.input>>
            /\ cmAction' = Some(OutputMachineMap_output_transform(cmSecond,
                                Machine_transition(cmFirst, cmCall'.input).act))
            /\ cmFirst' = Machine_transition(cmFirst, cmCall'.input).next
            /\ cmSecond' = cmSecond]_vars

\* InputMappedMachine(InMap, accumulator from 0) was handed 2 and then -1:
\* the accumulator saw -2 and 1 and now returns -2 and holds -1
C25_Witness ==
    /\ cmKind = "InputMapped"
    /\ cmSecond = Mapper("InMap")
    /\ cmInputs = <<2, -1>>
    /\ cmAction = Some(-2)
    /\ cmFirst = Machine("ThingMachine", -1)

----------------------------------------------------------------------------
(* Properties of the standard serial deciders. *)

LastOrdinal == NumVariants - 1

\* C26: under SerialRunner the composite steps its current variant; while
\* the variant is nonterminal it keeps it, when the variant terminates
\* (whatever the value) it switches to a fresh variant of the next ordinal,
\* and it exits with () exactly when the variant of the last ordinal
\* terminates; the ordinal never decreases.
C26_SerialRunnerPolicy ==
    [][ndKind = "SerialRunner" =>
         LET r == MultiMachine_step(ndChild, ndCall'.input)
             d == discriminant_of(ndChild)
         IN  /\ ndCall'.stepped = ndChild.id
             /\ r.tag = "Nonterminal" =>
                  /\ ndLive'
                  /\ ndResult' = [tag |-> "Nonterminal",
                                  val |-> NontermReturn("Nonterminal", d, r.val)]
                  /\ ndChild' = r.node
             /\ (r.tag = "Terminal" /\ d < LastOrdinal) =>
                  /\ ndLive'
                  /\ ndResult' = [tag |-> "Nonterminal",
                                  val |-> NontermReturn("Terminal", d, r.val)]
                  /\ ndChild' = EnumNode_new(d + 1, ndNextId)
             /\ (r.tag = "Terminal" /\ d = LastOrdinal) =>
                  /\ ~ndLive'
                  /\ ndResult' = Terminal(Unit)
                  /\ ndChild' = NoChild
             /\ ndLive' => discriminant_of(ndChild') >= d]_vars

\* both variants ran and terminated in order, and the composite exited
C26_Witness ==
    /\ ndKind = "SerialRunner"
    /\ ~ndLive
    /\ ndResult = Terminal(Unit)
    /\ ndTerminated = {1, 2}
    /\ ndTick >= 4

\* C27: under SerialSelector the composite steps its current variant; when
\* the variant terminates with Some(t) it exits with Some((ordinal, t)), when
\* it terminates with None it switches to a fresh variant of the next
\* ordinal, and it exits with None exactly when the variant of the last
\* ordinal terminates with None; the ordinal never decreases.
C27_SerialSelectorPolicy ==
    [][ndKind = "SerialSelector" =>
         LET r == WrappedMachine_step(ndChild, ndCall'.input)
             d == discriminant_of(ndChild)
         IN  /\ ndCall'.stepped = ndChild.id
             /\ r.tag = "Nonterminal" =>
                  /\ ndLive'
                  /\ ndResult' = [tag |-> "Nonterminal",
                                  val |-> NontermReturn("Nonterminal", d, r.val)]
                  /\ ndChild' = r.node
             /\ (r.tag = "Terminal" /\ r.val # None) =>
                  /\ ~ndLive'
                  /\ ndResult' = Terminal(Some(<<d, r.val.st>>))
                  /\ ndChild' = NoChild
             /\ (r.tag = "Terminal" /\ r.val = None /\ d < LastOrdinal) =>
                  /\ ndLive'
                  /\ ndResult' = [tag |-> "Nonterminal",
                                  val |-> NontermReturn("Terminal", d, None)]
                  /\ ndChild' = EnumNode_new(d + 1, ndNextId)
             /\ (r.tag = "Terminal" /\ r.val = None /\ d = LastOrdinal) =>
                  /\ ~ndLive'
                  /\ ndResult' = Terminal(None)
                  /\ ndChild' = NoChild
             /\ ndLive' => discriminant_of(ndChild') >= d]_vars

\* the first variant terminated with None, the second with Some(2): the
\* composite exited with Some((Second, 2))
C27_Witness ==
    /\ ndKind = "SerialSelector"
    /\ ~ndLive
    /\ ndTerminated = {1, 2}
    /\ ndResult = Terminal(Some(<<1, 2>>))

\* C28: under SerialRepeater the composite steps its current variant, keeps
\* it while it is nonterminal, switches to a fresh variant of the next
\* ordinal when it terminates, and to a fresh variant of ordinal 0 when the
\* variant of the last ordinal terminates; it never returns Terminal.
C28_SerialRepeaterPolicy ==
    /\ [][ndKind = "SerialRepeater" =>
            LET r == MultiMachine_step(ndChild, ndCall'.input)
                d == discriminant_of(ndChild)
            IN  /\ ndCall'.stepped = ndChild.id
                /\ r.tag = "Nonterminal" =>
                     /\ ndResult'.val = NontermReturn("Nonterminal", d, r.val)
                     /\ ndChild' = r.node
                /\ r.tag = "Terminal" =>
                     /\ ndResult'.val = NontermReturn("Terminal", d, r.val)
                     /\ ndChild' = EnumNode_new(IF d < LastOrdinal THEN d + 1
                                                ELSE 0, ndNextId)]_vars
    /\ [](ndKind = "SerialRepeater" =>
            /\ ndLive
            /\ ndChild # NoChild
            /\ ndResult.tag # "Terminal")

\* the variants First, Second and First again have terminated, and the
\* composite now holds a fresh Second
C28_Witness ==
    /\ ndKind = "SerialRepeater"
    /\ Cardinality(ndTerminated) = 3
    /\ ndCall.ctag = "Terminal"
    /\ ndCall.dec = TransDecision(1)
    /\ ndChild = EnumNode_new(1, 4)

----------------------------------------------------------------------------
(* Properties of the control wrappers. *)

\* C29: StepControlledNode::step follows the controller's decision. Pause
\* returns Paused and leaves the wrapped node unstepped and unchanged; Play
\* steps it and returns Stepped(n) with the continuation, or Terminal(t);
\* Reset returns Paused and holds a default node that was not stepped;
\* ResetPlay steps a default node with the same input.
C29_StepControlDecisions ==
    [][ndKind = "StepControlled" =>
         LET decision == ndCall'.dec.kind
             input == ndCall'.input
             played == MachineWrapper_step(ndChild, input)
             replayed == MachineWrapper_step(Leaf_default(ndNextId), input)
         IN  /\ decision = "Pause" =>
                  /\ ndResult' = [tag |-> "Nonterminal", val |-> Paused]
                  /\ ndCall'.stepped = 0
                  /\ ndChild' = ndChild
                  /\ ndLive'
             /\ (decision = "Play" /\ played.tag = "Nonterminal") =>
                  /\ ndResult' = [tag |-> "Nonterminal",
                                  val |-> Stepped(played.val)]
                  /\ ndCall'.stepped = ndChild.id
                  /\ ndChild' = played.node
                  /\ ndLive'
             /\ (decision = "Play" /\ played.tag = "Terminal") =>
                  /\ ndResult' = Terminal(played.val)
                  /\ ndCall'.stepped = ndChild.id
                  /\ ~ndLive'
             /\ decision = "Reset" =>
                  /\ ndResult' = [tag |-> "Nonterminal", val |-> Paused]
                  /\ ndCall'.stepped = 0
                  /\ ndChild' = Leaf_default(ndNextId)
                  /\ ndLive'
             /\ (decision = "ResetPlay" /\ replayed.tag = "Nonterminal") =>
                  /\ ndResult' = [tag |-> "Nonterminal",
                                  val |-> Stepped(replayed.val)]
                  /\ ndCall'.stepped = ndNextId
                  /\ ndChild' = replayed.node
                  /\ ndLive'
             /\ (decision = "ResetPlay" /\ replayed.tag = "Terminal") =>
                  /\ ndResult' = Terminal(replayed.val)
                  /\ ndCall'.stepped = ndNextId
                  /\ ~ndLive']_vars

\* a Reset on the third call or later: the wrapper holds a default node, in
\* place of the node it was built over, and stepped nothing in the call
C29_Witness ==
    /\ ndKind = "StepControlled"
    /\ ndTick >= 3
    /\ ndCall.dec.kind = "Reset"
    /\ ndCall.stepped = 0
    /\ ndResult.val = Paused
    /\ ndChild = Leaf_default(2)

\* C30: PostResetNode::step steps the wrapped node first and then asks the
\* resetter. On a nonterminal result it returns NoReset(v) with the
\* continuation, or ManualReset(v) with a default node when the resetter
\* says reset; on a terminal result it returns Nonterminal(EndReset(t)) with
\* a default node when the resetter says reset, and Terminal(t) otherwise.
C30_PostResetDecisions ==
    [][ndKind = "PostReset" =>
         LET reset == (ndCall'.dec.kind = "Reset")
             r == MachineWrapper_step(ndChild, ndCall'.input)
         IN  /\ ndCall'.stepped = ndChild.id
             /\ ndCall'.ctag = r.tag
             /\ (r.tag = "Nonterminal" /\ ~reset) =>
                  /\ ndResult' = [tag |-> "Nonterminal",
                                  val |-> PostResetNonterm("NoReset", r.val)]
                  /\ ndChild' = r.node
                  /\ ndLive'
             /\ (r.tag = "Nonterminal" /\ reset) =>
                  /\ ndResult' = [tag |-> "Nonterminal",
                                  val |-> PostResetNonterm("ManualReset", r.val)]
                  /\ ndChild' = Leaf_default(ndNextId)
                  /\ ndLive'
             /\ (r.tag = "Terminal" /\ reset) =>
                  /\ ndResult' = [tag |-> "Nonterminal",
                                  val |-> PostResetNonterm("EndReset", r.val)]
                  /\ ndChild' = Leaf_default(ndNextId)
                  /\ ndLive'
             /\ (r.tag = "Terminal" /\ ~reset) =>
                  /\ ndResult' = Terminal(r.val)
                  /\ ndChild' = NoChild
                  /\ ~ndLive']_vars

\* the wrapped node terminated with 2 after two steps and was reset: the
\* wrapper returned EndReset(2) and holds a default node
C30_Witness ==
    /\ ndKind = "PostReset"
    /\ ndLive
    /\ ndCall.ctag = "Terminal"
    /\ ndResult = [tag |-> "Nonterminal",
                   val |-> PostResetNonterm("EndReset", 2)]
    /\ ndChild.st = 0
    /\ ndTick >= 3

\* C31: GuardedNode::step steps the wrapped node and then tests the guard.
\* A nonterminal child with a passing guard gives Nonterminal(n) with the
\* guarded continuation; a nonterminal child with a failing guard gives
\* Terminal(Err(GuardFailure(n))) with the value the child just produced; a
\* terminal child gives Terminal(Ok(t)) whatever the guard would say.
C31_GuardedNodeOutcomes ==
    [][ndKind = "Guarded" =>
         LET r == MachineWrapper_step(ndChild, ndCall'.input)
             test == (ndCall'.dec.kind = "Pass")
         IN  /\ ndCall'.stepped = ndChild.id
             /\ ndCall'.ctag = r.tag
             /\ (r.tag = "Nonterminal" /\ test) =>
                  /\ ndResult' = [tag |-> "Nonterminal", val |-> r.val]
                  /\ ndChild' = r.node
                  /\ ndLive'
             /\ (r.tag = "Nonterminal" /\ ~test) =>
                  /\ ndResult' = Terminal(Err(r.val))
                  /\ ndChild' = NoChild
                  /\ ~ndLive'
             /\ r.tag = "Terminal" =>
                  /\ ndResult' = Terminal(Ok(r.val))
                  /\ ndChild' = NoChild
                  /\ ~ndLive']_vars

\* the guard passed twice and failed on the third nonterminal step of the
\* child: the guarded node exited with Err carrying that step's value
C31_Witness ==
    /\ ndKind = "Guarded"
    /\ ~ndLive
    /\ ndTick = 3
    /\ ndCall.ctag = "Nonterminal"
    /\ ndCall.dec.kind = "Fail"
    /\ ndResult = Terminal(Err(3))

\* C32: a transition of a RefStateMachine or DualStateMachine is computed
\* by the step value the previous transition put back (the constructor's
\* value for the first), and the DualStateMachine hands its step the
\* internal state the previous step left; an InternalStateMachine keeps its
\* step function and only its internal state changes.
C32_StepValueCarriesOver ==
    [][(BmTransition /\ bmResult'.kind = "Action") =>
         /\ bmKind = "Ref" =>
              LET r == ThingBob_step(bmMachine.fn.st, bmInput')
              IN  /\ bmResult'.val = r.act
                  /\ bmMachine'.fn = Some(r.next)
         /\ bmKind = "Dual" =>
              LET r == DualThingMachine_step(bmMachine.fn.st, bmInput',
                                             bmMachine.internal)
              IN  /\ bmResult'.val = r.act
                  /\ bmMachine'.fn = Some(r.next)
                  /\ bmMachine'.internal = r.st
         /\ bmKind = "Internal" =>
              /\ bmResult'.val = bmMachine.internal
              /\ bmMachine'.fn = bmMachine.fn
              /\ bmMachine'.internal = bmMachine.internal + bmInput']_vars

\* a RefStateMachine built over XorSwap0 was handed true, false and true: it
\* returned true on the third call and holds XorSwap0 again
C32_Witness ==
    /\ bmKind = "Ref"
    /\ bmCopy = NoCopy
    /\ bmCalls = 3
    /\ bmInput = TRUE
    /\ bmResult = [kind |-> "Action", val |-> TRUE]
    /\ bmMachine.fn = Some("XorSwap0")

----------------------------------------------------------------------------
(* Further properties of the pushdown automaton. *)

LastServiced(hist) == hist[Len(hist)].serviced

\* what the claim says of every call of transition: one automaton is
\* transitioned, the top frame or bottom when the stack is empty, the frames
\* below the top keep their state and position, bottom is untouched while a
\* frame is serviced, and the stack grows by a frame in its initial state on
\* a returned Push, shrinks by the serviced frame on a returned Pop and is
\* the same stack of frames otherwise
PushPopOnly ==
    LET n == Len(pdStack)
    IN  /\ Len(pdStack') >= n - 1
        /\ \A i \in 1..(n - 1) : pdStack'[i] = pdStack[i]
        /\ n > 0 =>
             /\ LastServiced(pdHist') = pdStack[n].id
             /\ pdBottom' = pdBottom
             /\ pdResult'.kind # "Pop" =>
                  (Len(pdStack') >= n /\ pdStack'[n].id = pdStack[n].id)
        /\ n = 0 =>
             /\ LastServiced(pdHist') = BottomId
             /\ pdResult'.kind # "Pop"
        /\ pdResult'.kind = "Push" =>
             /\ Len(pdStack') = n + 1
             /\ pdStack'[n + 1] = NonterminalProxyInto(pdNextId)
        /\ pdResult'.kind = "Pop" => Len(pdStack') = n - 1
        /\ pdResult'.kind \notin {"Push", "Pop"} => Len(pdStack') = n

\* C33 as stated, of every call that reaches an automaton, whether the
\* automaton's transition returns or unwinds
C33_EveryTransition ==
    [][pdResult'.kind # "Poisoned" => PushPopOnly]_vars

\* C33, amended: a transition of the pushdown automaton that returns
\* transitions one automaton, the top frame or bottom when the stack is
\* empty; the frames below the top keep their state and position, bottom is
\* untouched while a frame is serviced, a frame pushed in the call is in its
\* initial state, and the stack grows by one on Push, shrinks by one on Pop
\* and keeps its length on Stay. A transition in which the top frame's call
\* unwinds has called that frame alone and leaves the stack without it and
\* everything below untouched; one in which bottom's call unwinds leaves the
\* stack as it was and bottom taken; a call on a taken bottom calls nothing
\* and changes nothing.
C33_OneAutomatonPerTransition ==
    [][LET n == Len(pdStack)
       IN  /\ Returned(pdResult'.kind) => PushPopOnly
           /\ (pdResult'.kind = "Panic" /\ n > 0) =>
                /\ LastServiced(pdHist') = pdStack[n].id
                /\ pdStack' = SubSeq(pdStack, 1, n - 1)
                /\ pdBottom' = pdBottom
           /\ (pdResult'.kind = "Panic" /\ n = 0) =>
                /\ LastServiced(pdHist') = BottomId
                /\ pdStack' = pdStack
                /\ pdBottom' = None
           /\ pdResult'.kind = "Poisoned" =>
                /\ LastServiced(pdHist') = NoService
                /\ pdStack' = pdStack
                /\ pdBottom' = pdBottom]_vars

\* three frames deep, the top frame has just stayed and changed its state,
\* the two frames below it are in different states
C33_Witness ==
    /\ Len(pdStack) = 3
    /\ pdResult.kind = "Stay"
    /\ pdStack[3].st = 1
    /\ pdStack[2].st # pdStack[1].st

\* C34: the frames handed to from_iter are stacked in iteration order: the
\* last frame yielded is the top and services the first input, bottom
\* services it when the iterator was empty, and since the serviced frame is
\* always the top of a stack ordered by age, the prepushed frames are popped
\* in reverse iteration order.
C34_PrepushOrder ==
    /\ [](pdHist = <<>> =>
            \A i \in 1..Len(pdStack) : pdStack[i].id = i)
    /\ [][pdHist = <<>> =>
            LastServiced(pdHist') = IF Len(pdStack) = 0 THEN BottomId
                                    ELSE pdNextId - 1]_vars
    /\ [](\A i, j \in 1..Len(pdStack) :
            i < j => pdStack[i].id < pdStack[j].id)
    /\ [][pdResult'.kind = "Pop" =>
            \A i \in 1..Len(pdStack') :
               pdStack'[i].id < LastServiced(pdHist')]_vars

\* two frames were prepushed; the first two inputs popped the second and
\* then the first
C34_Witness ==
    /\ pdStack = <<>>
    /\ Len(pdHist) = 2
    /\ pdHist[1] = [serviced |-> 2, kind |-> "Pop", pushed |-> 0]
    /\ pdHist[2] = [serviced |-> 1, kind |-> "Pop", pushed |-> 0]

----------------------------------------------------------------------------
(* Further properties of the parallel deciders. *)

TerminalSlots(states) == {k \in 1..Len(states) : IsTerminal(states[k])}

LowestSlot(slots) == CHOOSE k \in slots : \A j \in slots : k <= j

\* C35: when several children report Terminal on the same tick,
\* ParallelRacer::each_step exits with the lowest index among them and with
\* the terminal value of the child at that index; with no Terminal it hands
\* the child results back.
C35_RacerLowestIndexWins ==
    [](( parKind = "RacerDecider" /\ parResult.tag # "None") =>
         LET states == parCall.states
             slots == TerminalSlots(states)
         IN  IF slots = {}
             THEN parResult = StNonterminal(states)
             ELSE parResult = StTerminal(<<LowestSlot(slots) - 1,
                                          states[LowestSlot(slots)].val>>))

\* the children at index 1 and 2 reported Terminal(3) and Terminal(1) on the
\* same tick: the racer exited with (1, 3)
C35_Witness ==
    /\ parKind = "RacerDecider"
    /\ parCall.states = <<StNonterminal(0), StTerminal(3), StTerminal(1)>>
    /\ parResult = StTerminal(<<1, 3>>)

----------------------------------------------------------------------------
(* Further properties of the serial node and the step controller. *)

\* C36: when the decision of a SerialBranchNode is a transition to the
\* discriminant that is already active, the node holds a freshly
\* constructed instance of that variant in its initial state, not the
\* continuation of the child; the child's state is kept only under Step.
C36_TransToActiveVariantResets ==
    /\ [][(/\ IsSerial
           /\ ndCall'.dec.kind = "Trans"
           /\ ndCall'.dec.e = discriminant_of(ndChild)) =>
            /\ ndLive'
            /\ ndChild' = EnumNode_new(discriminant_of(ndChild), ndNextId)
            /\ ndChild'.st = 0
            /\ ndChild'.id # ndChild.id
            /\ ndCall'.ctag = "Nonterminal" =>
                 ndChild' # MultiMachine_step(ndChild, ndCall'.input).node]_vars
    /\ [][(IsSerial /\ ndLive' /\ ndCall'.dec.kind # "Step") =>
            /\ ndChild'.id # ndChild.id
            /\ ndChild'.st = 0]_vars
    /\ [][(IsSerial /\ ndCall'.dec.kind = "Step"
             /\ ndCall'.ctag = "Nonterminal") =>
            ndChild'.st = ndChild.st + 1]_vars

\* a nonterminal child that had counted to 2 was replaced by a fresh
\* instance of its own variant
C36_Witness ==
    /\ IsSerial /\ ndLive
    /\ ndCall.ctag = "Nonterminal"
    /\ ndCall.dec.kind = "Trans"
    /\ ndResult.val.val = 2
    /\ ndCall.dec.e = ndResult.val.disc
    /\ discriminant_of(ndChild) = ndCall.dec.e
    /\ ndChild.st = 0

\* C37: over the whole life of a LazyConstructedMachine the constructor is
\* invoked at most once, and that on the first transition of a machine
\* created with new; from the second transition on the built machine is
\* the one stepped, so that the machine held afterwards is the held machine
\* after one more step and no constructor call is made; a machine created
\* with from_existing never invokes a constructor.
C37_ConstructorAtMostOnce ==
    /\ [](cmKind \in {"Lazy", "LazyExisting"} => cmBuilds \in {0, 1})
    /\ [](cmKind = "LazyExisting" => cmBuilds = 0)
    /\ [](cmKind = "Lazy" => cmBuilds = (IF cmInputs = <<>> THEN 0 ELSE 1))
    /\ [][(cmKind \in {"Lazy", "LazyExisting"} /\ cmFirst.tag = "Machine")
            => /\ cmBuilds' = cmBuilds
               /\ cmFirst' =
                    Built(Machine_transition(cmFirst.m, cmCall'.input).next)]_vars

\* a machine created with new has been handed three inputs, the last two
\* stepping a stateful machine built on the first
C37_Witness ==
    /\ cmKind = "Lazy"
    /\ Len(cmInputs) >= 3
    /\ cmBuilds = 1
    /\ cmFirst.tag = "Machine"
    /\ cmFirst.m # creation_closure(cmFirst.m.kind, cmCall.input)

\* C38: for StepControlledNode a ResetPlay decision on input i returns the
\* result and holds the continuation that a Reset decision followed by a
\* Play decision on i, applied to the node Reset produced, returns and
\* holds; both are a step of a default instance of the wrapped node with i,
\* whatever state the wrapped node had before.
C38_ResetPlayIsResetThenPlay ==
    [][(ndKind = "StepControlled" /\ ndLive /\ ndCall'.dec.kind = "ResetPlay") =>
         LET i == ndCall'.input
             reset == StepControlledNode_step(ndChild, i, "Reset", ndNextId)
             play == StepControlledNode_step(reset.child, i, "Play",
                                             ndNextId + 1)
             d == MachineWrapper_step(Leaf_default(ndNextId), i)
         IN  /\ ndResult' = play.res
             /\ ndChild' = play.child
             /\ ndResult' = IF d.tag = "Nonterminal"
                            THEN [tag |-> "Nonterminal", val |-> Stepped(d.val)]
                            ELSE Terminal(d.val)
             /\ ndChild' = IF d.tag = "Nonterminal" THEN d.node ELSE NoChild
             /\ \A st \in 0..MaxCount :
                  LET o == StepControlledNode_step([ndChild EXCEPT !.st = st],
                                                   i, "ResetPlay", ndNextId)
                  IN  o.res = ndResult' /\ o.child = ndChild']_vars

\* ResetPlay was decided after at least two earlier calls: the wrapper
\* returned Stepped(1) and holds a node constructed in that call that has
\* taken one step
C38_Witness ==
    /\ ndKind = "StepControlled"
    /\ ndCall.dec.kind = "ResetPlay"
    /\ ndTick >= 3
    /\ ndChild # NoChild
    /\ ndChild.id = ndCall.stepped
    /\ ndChild.st = 1
    /\ ndResult = [tag |-> "Nonterminal", val |-> Stepped(1)]

\* C39: a transition that returns normally never leaves a take-and-replace
\* holder in its placeholder state: whenever the last transition returned,
\* RefStateMachine and DualStateMachine hold a step value, NodeRunner holds
\* a node, LazyConstructedMachine holds a built machine and
\* PushdownAutomaton holds its bottom; and a transition fails on the
\* placeholder only right after a transition that failed, so no sequence of
\* returning transitions reaches the poisoned panic.
C39_ReturnRefillsHolder ==
    /\ []((bmKind \in HolderKinds /\ bmResult.kind = "Action")
             => bmMachine.fn # None)
    /\ []((cmKind \in LazyKinds /\ cmInputs # <<>>) => cmFirst.tag = "Machine")
    /\ [](Returned(pdResult.kind) => pdBottom # None)
    /\ [][((bmResult'.kind = "Poisoned")
              => (bmResult.kind \in {"Panic", "Poisoned"}))
           /\ ((pdResult'.kind = "Poisoned")
                 => (pdResult.kind \in {"Panic", "Poisoned"}))]_vars

\* a RefStateMachine has returned from three transitions in a row and holds
\* a step value
C39_Witness ==
    /\ bmKind = "Ref"
    /\ bmCalls >= 3
    /\ ~bmPanicked
    /\ bmResult.kind = "Action"
    /\ bmMachine.fn # None

\* the NontermReturn variant that names the children that returned Terminal
HetVariant(atag, btag) ==
    IF atag = "Terminal"
    THEN IF btag = "Terminal" THEN "TermBoth" ELSE "TermANotB"
    ELSE IF btag = "Terminal" THEN "TermBNotA" ELSE "NontermBoth"

\* C40: HeterogeneousParallelNode::step steps both children on every tick;
\* when it returns Nonterminal, the NontermReturn variant names exactly the
\* children that returned Terminal on that tick and carries the two values
\* they returned, and in the continuation every child that returned
\* Terminal is a default instance constructed in the call, while a child
\* that returned Nonterminal is its own continuation or such a default
\* instance.
C40_HeterogeneousOutcomes ==
    [][(parKind = "Heterogeneous" /\ parTick' = parTick + 1) =>
         LET ra == MachineWrapper_step(parColl[1], parCall'.input[1])
             rb == MachineWrapper_step(parColl[2], parCall'.input[2])
             r == <<ra, rb>>
             old == {parColl[1].id, parColl[2].id}
         IN  /\ parCall'.log = <<parColl[1].id, parColl[2].id>>
             /\ parResult'.tag = "Nonterminal" =>
                  /\ parResult'.val =
                       HetNontermReturn(HetVariant(ra.tag, rb.tag), ra.val, rb.val)
                  /\ Len(parColl') = 2
                  /\ parColl'[1].id # parColl'[2].id
                  /\ \A k \in 1..2 :
                       IF r[k].tag = "Terminal"
                       THEN /\ parColl'[k].st = 0
                            /\ parColl'[k].id \notin old
                       ELSE \/ parColl'[k] = r[k].node
                            \/ /\ parColl'[k].st = 0
                               /\ parColl'[k].id \notin old]_vars

\* the first child returned Terminal(2) while the second went on: the node
\* returned TermANotB(2, 3) and holds a default first child next to the
\* second child's continuation
C40_Witness ==
    /\ parKind = "Heterogeneous"
    /\ parLive
    /\ parResult = [tag |-> "Nonterminal",
                    val |-> HetNontermReturn("TermANotB", 2, 3)]
    /\ parCall.dec = "StepB"
    /\ parColl[1].st = 0
    /\ parColl[1].id \notin {parCall.log[1], parCall.log[2]}
    /\ parColl[2] = [id |-> parCall.log[2], st |-> 3]

====
